---- MODULE Spec2Model ----
(***************************************************************************)
(* go-snmpsim operator scripts: the Zabbix management CLI                  *)
(* (zabbix/manage_devices.py), the API client (zabbix/zabbix_api_client.py)*)
(* the bulk host importer (zabbix/bulk_import_snmpv3_hosts.py) and the     *)
(* bulk item scripts (scripts/add_bulk_items*.py), against a remote       *)
(* JSON-RPC server.                                                        *)
(*                                                                         *)
(* Specifications:                                                         *)
(*   Spec        two management commands (add / delete / interval) running *)
(*               interleaved, one API call per step, against one server    *)
(*   SpecWait    ZabbixAPIClient.wait_for_server, one loop iteration a step*)
(*   SpecClient  one client instance: login / logout / other requests      *)
(*   SpecChunk   the batch loop of the bulk item scripts                   *)
(*   SpecItems   a bulk item script from login to summary: per host, the   *)
(*               batch loop with the server's answers and the counters     *)
(*   SpecGen     the item generation of the bulk item scripts from their   *)
(*               catalogs                                                  *)
(*   SpecTest    ZabbixIntegrationTester.run_full_test, stage by stage     *)
(*   SpecAuth    one management command or one run of the test runner      *)
(*   SpecManage  one management command against a server with hosts        *)
(*   SpecPoll    the data-readiness poll of the test runner; FairPoll adds *)
(*               that the loop keeps running                               *)
(*   SpecScripts one run of a host-creating or template-linking script     *)
(***************************************************************************)
EXTENDS Integers, Sequences, FiniteSets, TLC

VARIABLES
    \* ---- remote server (shared by every command run)
    srv_hosts,      \* set of host records [hostid, host, delays]
    srv_nextid,     \* next hostid the server hands out
    \* ---- one management command run per element of Runs
    cmd,            \* "add" | "delete" | "interval"
    count,          \* args.count
    interval,       \* args.interval
    pc,             \* position of the run in its command function
    device_num,     \* loop variable of the add / delete loops
    hostid,         \* hostid returned by create_host / found by get_host
    hosts,          \* cmd_set_interval: the list get_all_hosts returned
    added_hosts,    \* cmd_add_devices: list of (hostname, port)
    failed_hosts,   \* cmd_add_devices: list of (hostname, port, error)
    deleted,        \* cmd_delete_devices: counter
    updated,        \* cmd_set_interval: counter
    failed,         \* cmd_delete_devices / cmd_set_interval: counter
    rc,             \* value the command function returned (read at pc = "done")
    calls,          \* history: the API calls the run sent, <<method, target>>
    faulted,        \* history: some call of the run got a transport / API error
    began_after,    \* history: the other run had finished when this one began
    \* ---- ZabbixAPIClient.wait_for_server
    max_retries, retry_interval, attempt, w_pc, w_ret, w_gets, w_sleeps, w_log,
    \* ---- one client instance (ZabbixAPIClient or ZabbixBulkHostManager)
    kind, auth_token, request_id, sent, session, last_login, last_logout,
    \* ---- batch loop of the bulk item scripts
    items_to_create, batch_start, submitted, b_pc,
    \* ---- a bulk item script (scripts/add_bulk_items*.py) and the items the
    \*      server holds
    script,         \* "add_bulk_items" | "add_bulk_items_1000"
    definitions,    \* number of item definitions generated for one host
    item_hosts,     \* hosts: the list host.get returned (hostids)
    host_idx,       \* loop variable of `for host_idx, host in enumerate(hosts, 1)`
    host_success,   \* host_success (add_bulk_items.py: created)
    host_failed,    \* host_failed (add_bulk_items.py: failed)
    total_success, total_failed, total_duplicate,
    srv_items,      \* server: hostid -> set of item keys the host holds
    item_calls,     \* history: the item.create calls for the current host
    host_counts,    \* history: the counts of every host whose chunks were sent
    \* ---- item generation (scripts/add_bulk_items*.py)
    g_script, if_idx, sys_idx, g_items, g_pc,
    \* ---- ZabbixIntegrationTester.run_full_test (tests/run_zabbix_test.py)
    t_pc,           \* position in run_full_test
    num_devices,    \* argument of run_full_test
    t_device,       \* _add_devices: device_num
    t_added, t_failed,  \* _add_devices: added, failed
    max_wait, elapsed,  \* _wait_for_data_collection
    test_results,   \* self.test_results: [status, devices_added, errors]
    report,         \* zabbix_test_report.json: <<>>, or <<report>> once written
    t_ret,          \* value run_full_test returned (read at t_pc = "returned")
    stages,         \* history: <<stage, "start" | "True" | "False" | "raise">>
    t_calls,        \* history: the set of <<stage, method>> of the API calls sent
    t_checks,       \* history: the checks of the data poll, [slept, from, found]
    \* ---- one run of a provisioning script and the server it talks to
    s_script,       \* the script that runs
    s_pc,           \* position in the script
    s_attempt,      \* bulk_import_snmpv3_hosts.py main: attempt
    s_index,        \* position of the host loop: 1 for its first host
    s_added,        \* added / created / success_count
    s_skipped,      \* skipped
    s_failed,       \* failed / failed_count
    s_exit,         \* exit status of the process: "running", "0" or "1"
    s_found,        \* link_templates.py: hosts, the names host.get returned
    s_names,        \* server: the names of the hosts it holds
    s_template,     \* server: it holds the template the script looks for
    s_calls         \* history: [method, target, ok, held], the calls sent

srvVars  == <<srv_hosts, srv_nextid>>
runVars  == <<cmd, count, interval, pc, device_num, hostid, hosts, added_hosts,
              failed_hosts, deleted, updated, failed, rc, calls, faulted,
              began_after>>
mgmtVars == <<srvVars, runVars>>
waitVars == <<max_retries, retry_interval, attempt, w_pc, w_ret, w_gets,
              w_sleeps, w_log>>
clientVars == <<kind, auth_token, request_id, sent, session, last_login,
                last_logout>>
chunkVars == <<items_to_create, batch_start, submitted, b_pc>>
itemVars == <<script, definitions, item_hosts, host_idx, host_success,
              host_failed, total_success, total_failed, total_duplicate,
              srv_items, item_calls, host_counts>>
genVars == <<g_script, if_idx, sys_idx, g_items, g_pc>>
testVars == <<t_pc, num_devices, t_device, t_added, t_failed, max_wait, elapsed,
              test_results, report, t_ret, stages, t_calls, t_checks>>
scriptVars == <<s_script, s_pc, s_attempt, s_index, s_added, s_skipped, s_failed,
                s_exit, s_found, s_names, s_template, s_calls>>
vars == <<mgmtVars, waitVars, clientVars, chunkVars, itemVars, genVars, testVars,
          scriptVars>>

(***************************************************************************)
(* Bounds of the model.                                                    *)
(***************************************************************************)
MaxDevices == 2     \* args.count ranges over 1..MaxDevices
MaxHostItems == 3   \* items a pre-existing host carries: 0..MaxHostItems
MaxRetries == 4     \* wait_for_server: max_retries ranges over 1..MaxRetries
MaxInterval == 2    \* wait_for_server: retry_interval ranges over 1..MaxInterval
MaxRequests == 4    \* requests one client instance sends
MaxItems == 250     \* length of the generated item list: 0..MaxItems

Runs == {1, 2}
Other(r) == IF r = 1 THEN 2 ELSE 1

(***************************************************************************)
(* Names and ports: manage_devices.py 83-86.                               *)
(***************************************************************************)
snmp_port_start == 20000
polling_interval == "5m"

DigitChar(d) ==
    CASE d = 0 -> "0" [] d = 1 -> "1" [] d = 2 -> "2" [] d = 3 -> "3"
      [] d = 4 -> "4" [] d = 5 -> "5" [] d = 6 -> "6" [] d = 7 -> "7"
      [] d = 8 -> "8" [] d = 9 -> "9"

RECURSIVE Decimal(_)
\* str(n) for n >= 0
Decimal(n) == IF n < 10 THEN DigitChar(n)
              ELSE Decimal(n \div 10) \o DigitChar(n % 10)

\* f"{n:03d}": decimal, zero-padded on the left to at least three characters
Format03d(n) == IF n < 10 THEN "00" \o Decimal(n)
                ELSE IF n < 100 THEN "0" \o Decimal(n)
                ELSE Decimal(n)

\* hostname = f"cisco-iosxr-{device_num:03d}"
Hostname(n) == "cisco-iosxr-" \o Format03d(n)

\* port = snmp_port_start + device_num - 1
Port(n) == snmp_port_start + n - 1

\* a host of the server that no command of this tool names
ForeignHost == "Zabbix server"

(***************************************************************************)
(* The remote server, as the client sees it through the JSON-RPC API.      *)
(***************************************************************************)
\* what a call can come back with: its result, or a ZabbixAPIError raised by
\* _request (transport failure, non-200 status, bad JSON or an "error" field:
\* SpecClient tells these apart, the commands do not)
Responses == {"ok", "error"}

\* k items, each polled every 5 minutes
Delays(k) == [i \in 1..k |-> "5m"]

\* host.get with filter {"host": name}
HostsNamed(name) == {h \in srv_hosts : h.host = name}

\* host.get / item.get by hostid
HostsWithId(id) == {h \in srv_hosts : h.hostid = id}

\* host.create: the server refuses a second host of the same name
HostCreateRejected(name) == HostsNamed(name) # {}

\* host.create accepted: a new host without templates, hence without items
HostCreated(name) ==
    srv_hosts \cup {[hostid |-> srv_nextid, host |-> name, delays |-> <<>>]}

\* host.delete of one hostid
HostDeleted(id) == {h \in srv_hosts : h.hostid # id}

\* item.update accepted for the first n items of host id
ItemsUpdated(id, n, new) ==
    {IF h.hostid = id
       THEN [h EXCEPT !.delays = [i \in 1..Len(h.delays) |->
                                     IF i <= n THEN new ELSE h.delays[i]]]
       ELSE h : h \in srv_hosts}

\* order of host.get with sortfield "name": the foreign host, then by index
NameRank(name) == IF name = ForeignHost THEN 0
                  ELSE CHOOSE i \in 1..(MaxDevices + 1) : Hostname(i) = name

RECURSIVE SortedByName(_)
SortedByName(S) ==
    IF S = {} THEN <<>>
    ELSE LET h == CHOOSE x \in S : \A y \in S : NameRank(x.host) <= NameRank(y.host)
         IN  <<[hostid |-> h.hostid, host |-> h.host]>> \o SortedByName(S \ {h})

(***************************************************************************)
(* ZabbixAPIClient helpers used by the commands.                           *)
(***************************************************************************)
\* mutant: the existence check never finds the host
get_host_never(name) == 0

\* get_host: results[0] if results else None; the hostid found, 0 for None
get_host(name) ==
    IF HostsNamed(name) = {} THEN 0 ELSE (CHOOSE h \in HostsNamed(name) : TRUE).hostid

\* get_host_items: the items of the host (none when the host is unknown)
get_host_items(id) ==
    IF HostsWithId(id) = {} THEN <<>> ELSE (CHOOSE h \in HostsWithId(id) : TRUE).delays

\* mutant: a failed item.update is passed over and the call reports success
update_polling_interval_lenient(id) ==
    LET items == get_host_items(id)
    IN  {[ret |-> "raise", upd |-> 0]}
        \cup {[ret |-> "true", upd |-> k] : k \in 0..Len(items)}

\* update_polling_interval: the ways one call can end.  "raise": item.get
\* failed and the error propagates; "false": item.update failed at item
\* upd + 1, after upd items were updated; "true": every item.update passed.
update_polling_interval(id) ==
    LET items == get_host_items(id)
    IN  {[ret |-> "raise", upd |-> 0]}
        \cup (IF items = <<>>
                THEN {[ret |-> "true", upd |-> 0]}
                ELSE {[ret |-> "false", upd |-> k - 1] : k \in 1..Len(items)}
                       \cup {[ret |-> "true", upd |-> Len(items)]})

MgmtOnly ==
    UNCHANGED <<waitVars, clientVars, chunkVars, itemVars, genVars,
                testVars, scriptVars>>
Call(r, method, target) == calls' = [calls EXCEPT ![r] = Append(@, <<method, target>>)]

\* the calls of one update_polling_interval: item.get, then one item.update
\* for each item updated and one more for the item that failed
CallUpdates(r, target, out) ==
    calls' = [calls EXCEPT ![r] = Append(@, <<"item.get", target>>)
                 \o [i \in 1..(out.upd + IF out.ret = "false" THEN 1 ELSE 0) |->
                        <<"item.update", target>>]]
Fault(r, bad) == faulted' = [faulted EXCEPT ![r] = @ \/ bad]
Goto(r, where) == pc' = [pc EXCEPT ![r] = where]
Finished(r) == pc[r] \in {"done", "crashed"}

(***************************************************************************)
(* main(): argparse dispatch, manage_devices.py 346-352.                   *)
(***************************************************************************)
Start(r) ==
    /\ MgmtOnly
    /\ pc[r] = "start"
    /\ Goto(r, IF cmd[r] = "add" THEN "wait" ELSE "login")
    /\ began_after' = [began_after EXCEPT ![r] = Finished(Other(r))]
    \* cmd_add_devices 44: client.get_version(); an error of apiinfo.version is
    \* turned into "Unknown" (zabbix_api_client.py 468-474)
    /\ IF cmd[r] = "add" THEN Call(r, "apiinfo.version", "") ELSE calls' = calls
    /\ UNCHANGED <<srvVars, cmd, count, interval, device_num, hostid, hosts,
                   added_hosts, failed_hosts, deleted, updated, failed, rc,
                   faulted>>

\* mutant: the result of the readiness poll is not looked at
AfterWait_ignored(ready) == "login"

\* cmd_add_devices 49-52: if not client.wait_for_server(): return 1
AfterWait(ready) == IF ready THEN "login" ELSE "done"

\* cmd_add_devices 46-54: wait_for_server() with its defaults; the log keeps
\* what it returned
AddWaitForServer(r) ==
    /\ MgmtOnly
    /\ cmd[r] = "add" /\ pc[r] = "wait"
    /\ \E ready \in BOOLEAN :
         /\ Call(r, "wait_for_server", IF ready THEN "True" ELSE "False")
         /\ Goto(r, AfterWait(ready))
         /\ rc' = IF AfterWait(ready) = "done" THEN [rc EXCEPT ![r] = 1] ELSE rc
    /\ UNCHANGED <<srvVars, cmd, count, interval, device_num, hostid, hosts,
                   added_hosts, failed_hosts, deleted, updated, failed,
                   faulted, began_after>>

\* client.login() of cmd_add_devices 57-67, cmd_delete_devices 147-152,
\* cmd_set_interval 218-222: on ZabbixAPIError the command returns 1
Login(r) ==
    /\ MgmtOnly
    /\ pc[r] = "login"
    /\ Call(r, "user.login", "")
    /\ \E resp \in Responses :
         /\ Fault(r, resp # "ok")
         /\ IF resp = "ok"
              THEN /\ Goto(r, IF cmd[r] = "interval" THEN "list" ELSE "loop")
                   /\ rc' = rc
              ELSE /\ Goto(r, "done")
                   /\ rc' = [rc EXCEPT ![r] = 1]
    /\ device_num' = [device_num EXCEPT ![r] = 1]
    /\ UNCHANGED <<srvVars, cmd, count, interval, hostid, hosts, added_hosts,
                   failed_hosts, deleted, updated, failed, began_after>>

(***************************************************************************)
(* cmd_add_devices, manage_devices.py 79-138 (the same loop, with counters *)
(* for the lists, is ZabbixIntegrationTester._add_devices 130-179).         *)
(***************************************************************************)
\* mutant: the failure is printed but not recorded
AddFailed_dropped(r, error) == failed_hosts' = failed_hosts

AddFailed(r, error) ==
    failed_hosts' = [failed_hosts EXCEPT ![r] =
        Append(@, <<Hostname(device_num[r]), Port(device_num[r]), error>>)]
AddAdded(r) ==
    added_hosts' = [added_hosts EXCEPT ![r] =
        Append(@, <<Hostname(device_num[r]), Port(device_num[r])>>)]
NextDevice(r) ==
    /\ device_num' = [device_num EXCEPT ![r] = @ + 1]
    /\ Goto(r, "loop")

\* 88-94: existing = client.get_host({"host": hostname})
AddGetHost(r) ==
    /\ MgmtOnly
    /\ cmd[r] = "add" /\ pc[r] = "loop" /\ device_num[r] <= count[r]
    /\ Call(r, "host.get", Hostname(device_num[r]))
    /\ \E resp \in Responses :
         /\ Fault(r, resp # "ok")
         /\ IF resp # "ok"
              THEN AddFailed(r, resp) /\ NextDevice(r) /\ UNCHANGED added_hosts
              ELSE IF get_host(Hostname(device_num[r])) # 0
                     THEN AddAdded(r) /\ NextDevice(r) /\ UNCHANGED failed_hosts
                     ELSE /\ Goto(r, "create")
                          /\ UNCHANGED <<device_num, added_hosts, failed_hosts>>
    /\ UNCHANGED <<srvVars, cmd, count, interval, hostid, hosts, deleted,
                   updated, failed, rc, began_after>>

\* 96-103 and create_host 220-228: host.create; a fault, a rejection by the
\* server or a result without hostids raises ZabbixAPIError
AddCreateHost(r) ==
    /\ MgmtOnly
    /\ cmd[r] = "add" /\ pc[r] = "create"
    /\ Call(r, "host.create", Hostname(device_num[r]))
    /\ \E resp \in Responses \cup {"nohostids"} :
         LET error == IF resp # "ok" THEN resp
                      ELSE IF HostCreateRejected(Hostname(device_num[r]))
                             THEN "already exists" ELSE "none"
         IN  /\ Fault(r, resp # "ok")
             /\ IF error # "none"
                  THEN /\ AddFailed(r, error) /\ NextDevice(r)
                       /\ UNCHANGED <<srvVars, hostid>>
                  ELSE /\ srv_hosts' = HostCreated(Hostname(device_num[r]))
                       /\ srv_nextid' = srv_nextid + 1
                       /\ hostid' = [hostid EXCEPT ![r] = srv_nextid]
                       /\ Goto(r, "setinterval")
                       /\ UNCHANGED <<device_num, failed_hosts>>
    /\ UNCHANGED <<cmd, count, interval, hosts, added_hosts, deleted, updated,
                   failed, rc, began_after>>

\* 105-113: client.update_polling_interval(hostid, polling_interval); its
\* return value is ignored, an error it raises fails the device
AddUpdateInterval(r) ==
    /\ MgmtOnly
    /\ cmd[r] = "add" /\ pc[r] = "setinterval"
    /\ \E out \in update_polling_interval(hostid[r]) :
         /\ CallUpdates(r, Hostname(device_num[r]), out)
         /\ Fault(r, out.ret # "true")
         /\ srv_hosts' = ItemsUpdated(hostid[r], out.upd, polling_interval)
         /\ IF out.ret = "raise"
              THEN AddFailed(r, "error") /\ UNCHANGED added_hosts
              ELSE AddAdded(r) /\ UNCHANGED failed_hosts
    /\ NextDevice(r)
    /\ UNCHANGED <<srv_nextid, cmd, count, interval, hostid, hosts, deleted,
                   updated, failed, rc, began_after>>

\* 115-138: the summary and the exit code
AddSummary(r) ==
    /\ MgmtOnly
    /\ cmd[r] = "add" /\ pc[r] = "loop" /\ device_num[r] > count[r]
    /\ rc' = [rc EXCEPT ![r] = IF failed_hosts[r] # <<>> THEN 1 ELSE 0]
    /\ Goto(r, "done")
    /\ UNCHANGED <<srvVars, cmd, count, interval, device_num, hostid, hosts,
                   added_hosts, failed_hosts, deleted, updated, failed, calls,
                   faulted, began_after>>

(***************************************************************************)
(* cmd_delete_devices, manage_devices.py 157-177.                          *)
(***************************************************************************)
\* mutant: a name that is not found counts as a failure
DeleteNotFound_counted(r) == failed' = [failed EXCEPT ![r] = @ + 1]

\* 168-169: else: print "Not found"; no counter changes
DeleteNotFound(r) == failed' = failed

\* delete_host_by_name 254-257, first half: the lookup.  None: "Not found",
\* not counted; ZabbixAPIError: failed += 1
DeleteGetHost(r) ==
    /\ MgmtOnly
    /\ cmd[r] = "delete" /\ pc[r] = "loop" /\ device_num[r] <= count[r]
    /\ Call(r, "host.get", Hostname(device_num[r]))
    /\ \E resp \in Responses :
         /\ Fault(r, resp # "ok")
         /\ IF resp # "ok"
              THEN /\ failed' = [failed EXCEPT ![r] = @ + 1]
                   /\ NextDevice(r) /\ UNCHANGED hostid
              ELSE IF get_host(Hostname(device_num[r])) = 0
                     THEN NextDevice(r) /\ DeleteNotFound(r) /\ UNCHANGED hostid
                     ELSE /\ hostid' = [hostid EXCEPT ![r] =
                                           get_host(Hostname(device_num[r]))]
                          /\ Goto(r, "delete")
                          /\ UNCHANGED <<device_num, failed>>
    /\ UNCHANGED <<srvVars, cmd, count, interval, hosts, added_hosts,
                   failed_hosts, deleted, updated, rc, began_after>>

\* delete_host 240-242: host.delete; the server answers with an error when
\* the host is gone by now
DeleteHost(r) ==
    /\ MgmtOnly
    /\ cmd[r] = "delete" /\ pc[r] = "delete"
    /\ Call(r, "host.delete", Hostname(device_num[r]))
    /\ \E resp \in Responses :
         LET gone == HostsWithId(hostid[r]) = {}
         IN  /\ Fault(r, resp # "ok")
             /\ IF resp # "ok" \/ gone
                  THEN /\ failed' = [failed EXCEPT ![r] = @ + 1]
                       /\ UNCHANGED <<srv_hosts, deleted>>
                  ELSE /\ srv_hosts' = HostDeleted(hostid[r])
                       /\ deleted' = [deleted EXCEPT ![r] = @ + 1]
                       /\ UNCHANGED failed
    /\ NextDevice(r)
    /\ UNCHANGED <<srv_nextid, cmd, count, interval, hostid, hosts, added_hosts,
                   failed_hosts, updated, rc, began_after>>

\* mutant: the exit code ignores the failure counter
DeleteSummary_zero(r) ==
    /\ MgmtOnly
    /\ cmd[r] = "delete" /\ pc[r] = "loop" /\ device_num[r] > count[r]
    /\ rc' = [rc EXCEPT ![r] = 0]
    /\ Goto(r, "done")
    /\ UNCHANGED <<srvVars, cmd, count, interval, device_num, hostid, hosts,
                   added_hosts, failed_hosts, deleted, updated, failed, calls,
                   faulted, began_after>>

\* 174-177
DeleteSummary(r) ==
    /\ MgmtOnly
    /\ cmd[r] = "delete" /\ pc[r] = "loop" /\ device_num[r] > count[r]
    /\ rc' = [rc EXCEPT ![r] = IF failed[r] = 0 THEN 0 ELSE 1]
    /\ Goto(r, "done")
    /\ UNCHANGED <<srvVars, cmd, count, interval, device_num, hostid, hosts,
                   added_hosts, failed_hosts, deleted, updated, failed, calls,
                   faulted, began_after>>

(***************************************************************************)
(* cmd_set_interval, manage_devices.py 224-251.                            *)
(***************************************************************************)
\* 224-228: hosts = client.get_all_hosts(), outside any try: an error ends
\* the command with an uncaught exception; an empty list returns 1
IntervalListHosts(r) ==
    /\ MgmtOnly
    /\ cmd[r] = "interval" /\ pc[r] = "list"
    /\ Call(r, "host.get", "")
    /\ \E resp \in Responses :
         /\ Fault(r, resp # "ok")
         /\ IF resp # "ok"
              THEN Goto(r, "crashed") /\ UNCHANGED <<hosts, rc>>
              ELSE /\ hosts' = [hosts EXCEPT ![r] = SortedByName(srv_hosts)]
                   /\ IF srv_hosts = {}
                        THEN Goto(r, "done") /\ rc' = [rc EXCEPT ![r] = 1]
                        ELSE Goto(r, "loop") /\ rc' = rc
    /\ UNCHANGED <<srvVars, cmd, count, interval, device_num, hostid,
                   added_hosts, failed_hosts, deleted, updated, failed,
                   began_after>>

\* 235-245: one host of the list
IntervalUpdate(r) ==
    /\ MgmtOnly
    /\ cmd[r] = "interval" /\ pc[r] = "loop" /\ device_num[r] <= Len(hosts[r])
    /\ \E out \in update_polling_interval(hosts[r][device_num[r]].hostid) :
         /\ CallUpdates(r, hosts[r][device_num[r]].host, out)
         /\ Fault(r, out.ret # "true")
         /\ srv_hosts' = ItemsUpdated(hosts[r][device_num[r]].hostid, out.upd,
                                      interval[r])
         /\ IF out.ret = "true"
              THEN /\ updated' = [updated EXCEPT ![r] = @ + 1]
                   /\ UNCHANGED failed
              ELSE /\ failed' = [failed EXCEPT ![r] = @ + 1]
                   /\ UNCHANGED updated
    /\ NextDevice(r)
    /\ UNCHANGED <<srv_nextid, cmd, count, interval, hostid, hosts, added_hosts,
                   failed_hosts, deleted, rc, began_after>>

\* 247-251
IntervalSummary(r) ==
    /\ MgmtOnly
    /\ cmd[r] = "interval" /\ pc[r] = "loop" /\ device_num[r] > Len(hosts[r])
    /\ rc' = [rc EXCEPT ![r] = IF failed[r] = 0 THEN 0 ELSE 1]
    /\ Goto(r, "done")
    /\ UNCHANGED <<srvVars, cmd, count, interval, device_num, hostid, hosts,
                   added_hosts, failed_hosts, deleted, updated, failed, calls,
                   faulted, began_after>>

(***************************************************************************)
(* Initial states.  A group of variables that a specification does not use *)
(* is parked.                                                              *)
(***************************************************************************)
WaitParked ==
    /\ max_retries = 0 /\ retry_interval = 0 /\ attempt = 0 /\ w_pc = "parked"
    /\ w_ret = FALSE /\ w_gets = 0 /\ w_sleeps = 0 /\ w_log = <<>>
ClientParked ==
    /\ kind = "parked" /\ auth_token = "" /\ request_id = 0 /\ sent = <<>>
    /\ session = "" /\ last_login = <<>> /\ last_logout = <<>>
ChunkParked ==
    /\ items_to_create = <<>> /\ batch_start = 0 /\ submitted = <<>>
    /\ b_pc = "parked"
ItemParked ==
    /\ script = "parked" /\ definitions = 0 /\ item_hosts = <<>> /\ host_idx = 0
    /\ host_success = 0 /\ host_failed = 0
    /\ total_success = 0 /\ total_failed = 0 /\ total_duplicate = 0
    /\ srv_items = <<>> /\ item_calls = <<>> /\ host_counts = <<>>
GenParked ==
    /\ g_script = "parked" /\ if_idx = 0 /\ sys_idx = 0 /\ g_items = <<>>
    /\ g_pc = "parked"
TestParked ==
    /\ t_pc = "parked" /\ num_devices = 0 /\ t_device = 0 /\ t_added = 0
    /\ t_failed = 0 /\ max_wait = 0 /\ elapsed = 0 /\ test_results = <<>>
    /\ report = <<>> /\ t_ret = FALSE /\ stages = <<>> /\ t_calls = {}
    /\ t_checks = <<>>
ScriptParked ==
    /\ s_script = "parked" /\ s_pc = "parked" /\ s_attempt = 0 /\ s_index = 0
    /\ s_added = 0 /\ s_skipped = 0 /\ s_failed = 0 /\ s_exit = "parked"
    /\ s_found = <<>> /\ s_names = {} /\ s_template = FALSE /\ s_calls = <<>>
OthersParked == ItemParked /\ GenParked /\ TestParked /\ ScriptParked
MgmtParked ==
    /\ srv_hosts = {} /\ srv_nextid = 0
    /\ cmd = <<>> /\ count = <<>> /\ interval = <<>> /\ pc = <<>>
    /\ device_num = <<>> /\ hostid = <<>> /\ hosts = <<>> /\ added_hosts = <<>>
    /\ failed_hosts = <<>> /\ deleted = <<>> /\ updated = <<>> /\ failed = <<>>
    /\ rc = <<>> /\ calls = <<>> /\ faulted = <<>> /\ began_after = <<>>

\* The server holds any of the hosts cisco-iosxr-001..MaxDevices, each with
\* the same number of items (at most maxItems), and, for foreign in foreigns,
\* a host of another name.  Run r executes command cmds[r] ("none": no such
\* run).
MgmtInit(cmds, maxItems, foreigns) ==
    /\ \E H \in SUBSET (1..MaxDevices), k \in 0..maxItems, foreign \in foreigns :
         srv_hosts = {[hostid |-> i, host |-> Hostname(i), delays |-> Delays(k)] : i \in H}
                     \cup (IF foreign
                             THEN {[hostid |-> MaxDevices + 1, host |-> ForeignHost,
                                    delays |-> Delays(k)]}
                             ELSE {})
    /\ srv_nextid = MaxDevices + 2
    /\ cmd = cmds
    /\ count \in [Runs -> 0..MaxDevices]
    /\ \A r \in Runs : (cmd[r] \in {"add", "delete"}) <=> (count[r] > 0)
    /\ interval = [r \in Runs |-> "30s"]
    /\ pc = [r \in Runs |-> IF cmd[r] = "none" THEN "absent" ELSE "start"]
    /\ device_num = [r \in Runs |-> 1]
    /\ hostid = [r \in Runs |-> 0]
    /\ hosts = [r \in Runs |-> <<>>]
    /\ added_hosts = [r \in Runs |-> <<>>]
    /\ failed_hosts = [r \in Runs |-> <<>>]
    /\ deleted = [r \in Runs |-> 0]
    /\ updated = [r \in Runs |-> 0]
    /\ failed = [r \in Runs |-> 0]
    /\ rc = [r \in Runs |-> 0]
    /\ calls = [r \in Runs |-> <<>>]
    /\ faulted = [r \in Runs |-> FALSE]
    /\ began_after = [r \in Runs |-> FALSE]

(***************************************************************************)
(* Spec: two invocations of `manage_devices.py add` against one server,    *)
(* interleaved call by call (any interleaving, the sequential ones too).   *)
(***************************************************************************)
Init ==
    /\ MgmtInit([r \in Runs |-> "add"], 0, {FALSE})
    /\ WaitParked /\ ClientParked /\ ChunkParked /\ OthersParked

Next ==
    \/ \E r \in Runs : Start(r)
    \/ \E r \in Runs : AddWaitForServer(r)
    \/ \E r \in Runs : Login(r)
    \/ \E r \in Runs : AddGetHost(r)
    \/ \E r \in Runs : AddCreateHost(r)
    \/ \E r \in Runs : AddUpdateInterval(r)
    \/ \E r \in Runs : AddSummary(r)

Spec == Init /\ [][Next]_vars

(***************************************************************************)
(* SpecManage: one invocation of add, delete or interval.                  *)
(***************************************************************************)
InitManage ==
    /\ \E c \in {"add", "delete", "interval"} :
         MgmtInit([r \in Runs |-> IF r = 1 THEN c ELSE "none"], MaxHostItems, BOOLEAN)
    /\ WaitParked /\ ClientParked /\ ChunkParked /\ OthersParked

NextManage ==
    \/ Start(1)
    \/ AddWaitForServer(1)
    \/ Login(1)
    \/ AddGetHost(1)
    \/ AddCreateHost(1)
    \/ AddUpdateInterval(1)
    \/ AddSummary(1)
    \/ DeleteGetHost(1)
    \/ DeleteHost(1)
    \/ DeleteSummary(1)
    \/ IntervalListHosts(1)
    \/ IntervalUpdate(1)
    \/ IntervalSummary(1)

SpecManage == InitManage /\ [][NextManage]_vars

(***************************************************************************)
(* Properties of the management commands.                                  *)
(***************************************************************************)
\* the targets of the calls of one method, in the order run r sent them
RECURSIVE Targets(_, _)
Targets(log, method) ==
    IF log = <<>> THEN <<>>
    ELSE (IF Head(log)[1] = method THEN <<Head(log)[2]>> ELSE <<>>)
             \o Targets(Tail(log), method)

\* the names in a list of (hostname, port, ...) tuples
Names(list) == {list[k][1] : k \in 1..Len(list)}

\* what `add` does before it logs in
Preamble == {"apiinfo.version", "wait_for_server"}

\* login succeeded: the run sent a call after user.login (each command sends
\* one right after a successful login, and none after a failed one)
Authenticated(r) ==
    \E k \in 1..Len(calls[r]) : calls[r][k][1] \notin Preamble \cup {"user.login"}

\* run r came second: it began when the other run had finished, both ran
\* `add` with the same count to the end of their loops, and no call of either
\* met a fault
RanTwice(r) ==
    /\ began_after[r] /\ pc[r] = "done" /\ pc[Other(r)] = "done"
    /\ count[r] = count[Other(r)]
    /\ Authenticated(r) /\ Authenticated(Other(r))
    /\ ~faulted[r] /\ ~faulted[Other(r)]

\* C1: running `add N` twice in succession against a server whose calls all
\* succeed leaves exactly one host of each name cisco-iosxr-001..N; the second
\* run finds every name by its existence check, sends no host.create, raises
\* no error and reports no failure (it returns 0).
C1_AddTwiceIdempotent ==
    \A r \in Runs :
        RanTwice(r) =>
            /\ \A i \in 1..count[r] : Cardinality(HostsNamed(Hostname(i))) = 1
            /\ Targets(calls[r], "host.create") = <<>>
            /\ Targets(calls[r], "host.get") = [i \in 1..count[r] |-> Hostname(i)]
            /\ added_hosts[r] = [i \in 1..count[r] |-> <<Hostname(i), Port(i)>>]
            /\ failed_hosts[r] = <<>>
            /\ rc[r] = 0

\* C1 witness: a second run over MaxDevices names, the first of which had to
\* create a host
C1_Witness ==
    \E r \in Runs :
        /\ RanTwice(r) /\ count[r] = MaxDevices
        /\ Targets(calls[Other(r)], "host.create") # <<>>

\* C2 as claimed: with two interleaved `add` runs every name exists at most
\* once, and a run whose host.create the server rejects as a duplicate does
\* not count the device as failed and does not return 1 because of it.
C2_DuplicateIsSuccess ==
    /\ \A i \in 1..MaxDevices : Cardinality(HostsNamed(Hostname(i))) <= 1
    /\ \A r \in Runs :
         /\ \A k \in 1..Len(failed_hosts[r]) : failed_hosts[r][k][3] # "already exists"
         /\ (pc[r] = "done" /\ Authenticated(r) /\ ~faulted[r]) => rc[r] = 0

\* the number of indexes whose loop body run r has completed
Processed(r) == device_num[r] - 1

\* C3: in the add loop a failure at one device never aborts the loop: the
\* indexes are processed once each in increasing order whatever happened
\* before, every processed index is in exactly one of the lists added / failed,
\* and once the loop was entered the command ends with added + failed = N.
C3_LoopNeverAborts ==
    \A r \in Runs :
        /\ Targets(calls[r], "host.get") =
               [i \in 1..Len(Targets(calls[r], "host.get")) |-> Hostname(i)]
        /\ Len(Targets(calls[r], "host.get")) \in {Processed(r), Processed(r) + 1}
        /\ Names(added_hosts[r]) \cap Names(failed_hosts[r]) = {}
        /\ Names(added_hosts[r]) \cup Names(failed_hosts[r]) =
               {Hostname(i) : i \in 1..Processed(r)}
        /\ Len(added_hosts[r]) + Len(failed_hosts[r]) = Processed(r)
        /\ (pc[r] = "done" /\ Authenticated(r)) =>
               /\ Processed(r) = count[r]
               /\ Len(added_hosts[r]) + Len(failed_hosts[r]) = count[r]

\* C3 witness: a run that failed at its first device and still added the last
C3_Witness ==
    \E r \in Runs :
        /\ pc[r] = "done" /\ count[r] = MaxDevices
        /\ failed_hosts[r] # <<>> /\ failed_hosts[r][1][1] = Hostname(1)
        /\ Hostname(MaxDevices) \in Names(added_hosts[r])

\* a per-device operation of the run was recorded as failed
RecordedFailure(r) == IF cmd[r] = "add" THEN failed_hosts[r] # <<>> ELSE failed[r] > 0

GetOutcomes == {"200", "503", "timeout"}

\* mutant: any HTTP response counts as the server being up
ServerAnswered_any(out) == out # "timeout"

\* 457: response.status_code == 200 (a RequestException carries no response)
ServerAnswered(out) == out = "200"

\* mutant: sleeps after the last attempt too
SleepsAfter_always(a, n) == TRUE

\* 462: if attempt < max_retries - 1
SleepsAfter(a, n) == a < n - 1

WaitOnly ==
    UNCHANGED <<mgmtVars, clientVars, chunkVars, itemVars, genVars,
                testVars, scriptVars>>

\* 450-464: one attempt
WaitAttempt ==
    /\ WaitOnly
    /\ w_pc = "loop" /\ attempt < max_retries
    /\ \E out \in GetOutcomes :
         /\ w_gets' = w_gets + 1
         /\ IF ServerAnswered(out)
              THEN /\ w_pc' = "returned" /\ w_ret' = TRUE
                   /\ w_log' = Append(w_log, out)
                   /\ UNCHANGED <<attempt, w_sleeps>>
              ELSE /\ IF SleepsAfter(attempt, max_retries)
                        THEN /\ w_sleeps' = Append(w_sleeps, retry_interval)
                             /\ w_log' = w_log \o <<out, "sleep">>
                        ELSE /\ w_sleeps' = w_sleeps
                             /\ w_log' = Append(w_log, out)
                   /\ attempt' = attempt + 1
                   /\ UNCHANGED <<w_pc, w_ret>>
    /\ UNCHANGED <<max_retries, retry_interval>>

\* 466: the loop ran out, return False
WaitExhausted ==
    /\ WaitOnly
    /\ w_pc = "loop" /\ attempt >= max_retries
    /\ w_pc' = "returned" /\ w_ret' = FALSE
    /\ UNCHANGED <<max_retries, retry_interval, attempt, w_gets, w_sleeps, w_log>>

\* every caller passes a positive attempt budget (30 by default, 1 in the
\* test runner) and a positive interval
InitWait ==
    /\ max_retries \in 1..MaxRetries
    /\ retry_interval \in 1..MaxInterval
    /\ attempt = 0 /\ w_pc = "loop" /\ w_ret = FALSE
    /\ w_gets = 0 /\ w_sleeps = <<>> /\ w_log = <<>>
    /\ MgmtParked /\ ClientParked /\ ChunkParked /\ OthersParked

NextWait == WaitAttempt \/ WaitExhausted

SpecWait == InitWait /\ [][NextWait]_vars

\* the GET outcomes of the trace, without the sleeps
Gets(log) == SelectSeq(log, LAMBDA e : e # "sleep")

\* C5: wait_for_server never raises; it returns True iff one of its at most
\* max_retries GETs got HTTP 200, stops polling at the first such GET, and
\* returns False after exactly max_retries GETs when every one got another
\* status or a transport error.
C5_WaitForServerResult ==
    LET g == Gets(w_log) IN
    /\ w_pc \in {"loop", "returned"}
    /\ w_gets = Len(g) /\ w_gets <= max_retries
    /\ \A k \in 1..Len(g) : g[k] = "200" => (k = Len(g) /\ w_pc = "returned" /\ w_ret)
    /\ w_pc = "returned" =>
         /\ w_ret <=> (\E k \in 1..Len(g) : g[k] = "200")
         /\ ~w_ret => w_gets = max_retries

\* C5 witness: True on the last allowed attempt, after failures of both kinds
C5_Witness ==
    /\ w_pc = "returned" /\ w_ret /\ w_gets = max_retries /\ max_retries >= 3
    /\ \E i, j \in 1..Len(w_log) : w_log[i] = "503" /\ w_log[j] = "timeout"

\* C6: with the first HTTP 200 on attempt k, wait_for_server does exactly k
\* GETs and k - 1 sleeps of retry_interval before it returns True; when no
\* attempt succeeds it does exactly max_retries - 1 sleeps, none of them after
\* the last attempt.
C6_WaitForServerSleeps ==
    w_pc = "returned" =>
        /\ w_log[Len(w_log)] # "sleep"
        /\ w_ret => /\ w_gets = Len(Gets(w_log))
                    /\ w_sleeps = [i \in 1..(w_gets - 1) |-> retry_interval]
        /\ ~w_ret => w_sleeps = [i \in 1..(max_retries - 1) |-> retry_interval]
        /\ Len(w_log) = w_gets + Len(w_sleeps)
        /\ \A i \in 1..Len(w_log) : (w_log[i] = "sleep") <=> (i % 2 = 0)

\* C6 witness: max_retries = 3, the server answers on the 3rd attempt: 2 sleeps
C6_Witness ==
    /\ w_pc = "returned" /\ w_ret /\ max_retries = 3 /\ w_gets = 3
    /\ w_sleeps = <<retry_interval, retry_interval>>

(***************************************************************************)
(* One client instance: ZabbixAPIClient (kind "api", zabbix_api_client.py  *)
(* 24-138) or ZabbixBulkHostManager (kind "bulk",                          *)
(* bulk_import_snmpv3_hosts.py 16-67), used by any caller: login, logout   *)
(* and other requests in any order, each answered in any way.              *)
(*   sent        the requests put on the wire: [method, id, bearer], with  *)
(*               whether the call raised and the session at that time      *)
(*   session     history: the result of the latest login() that returned   *)
(*               True, None before the first and after a logout the server *)
(*               accepted                                                  *)
(*   last_login  history: <<>> or <<[resp, before, after, ret]>>, the      *)
(*               latest login() call                                       *)
(*   last_logout history: <<>> or <<[resp, before, after, ret]>>, the      *)
(*               latest logout() call                                      *)
(***************************************************************************)
None == "<None>"
\* a JSON result that is not a string (an object)
NonString == "<object>"
Tokens == {"tokenA", "tokenB"}

\* what the server can answer to user.login: a transport failure, a non-200
\* status, a body that is not JSON, a body with an "error" field, or a result
\* (a session token, or something that is not a string)
LoginResponses ==
    [kind : {"transport", "http", "badjson", "error"}, result : {None}]
        \cup [kind : {"ok"}, result : Tokens \cup {NonString}]
OtherResponses ==
    [kind : {"transport", "http", "badjson", "error", "ok"}, result : {None}]

\* _request 75-99 / request 36-52: the response makes the call raise
Raises(resp) == resp.kind # "ok"

\* Python truthiness of the stored token
Truthy(token) == token \notin {None, ""}

\* mutant: the token is attached to user.login too
Bearer_always(method) == IF Truthy(auth_token) THEN auth_token ELSE None

\* _request 70-71 / request 33-34: the Authorization header of a request
Bearer(method) ==
    IF Truthy(auth_token) /\ method # "user.login" THEN auth_token ELSE None

\* _request 56 (self.request_id += 1) / request 29 ("id": 1)
NextRequestId == IF kind = "api" THEN request_id + 1 ELSE 1

\* the request goes on the wire and is answered by resp
Send(method, resp) ==
    /\ request_id' = (IF kind = "api" THEN NextRequestId ELSE request_id)
    /\ sent' = Append(sent, [method |-> method, id |-> NextRequestId,
                             bearer |-> Bearer(method),
                             raised |-> Raises(resp),
                             session |-> IF method = "user.login" THEN None
                                         ELSE session])

\* login 117-122 / bulk login 58-64: login() returns True.  ZabbixAPIClient
\* raises ZabbixAPIError unless isinstance(result, str); the bulk manager
\* returns True whenever request did not raise
LoginReturnsTrue(resp) ==
    /\ ~Raises(resp)
    /\ kind = "api" => resp.result # NonString

\* mutant: the result is stored before it is checked
LoginStores_unchecked(resp) == ~Raises(resp)

\* login 119 / bulk login 62: self.auth_token = result is reached
LoginStores(resp) == LoginReturnsTrue(resp)

ClientOnly ==
    UNCHANGED <<mgmtVars, waitVars, chunkVars, itemVars, genVars,
                testVars, scriptVars>>

\* login()
ClientLogin ==
    /\ ClientOnly
    /\ Len(sent) < MaxRequests
    /\ \E resp \in LoginResponses :
         /\ Send("user.login", resp)
         /\ auth_token' = (IF LoginStores(resp) THEN resp.result ELSE auth_token)
         /\ session' = (IF LoginReturnsTrue(resp) THEN resp.result ELSE session)
         /\ last_login' = <<[resp |-> resp, before |-> auth_token,
                             after |-> auth_token',
                             ret |-> IF LoginReturnsTrue(resp) THEN "True"
                                     ELSE IF kind = "api" THEN "ZabbixAPIError"
                                     ELSE "False"]>>
    /\ UNCHANGED <<kind, last_logout>>

\* mutant: the token is dropped whether or not the server took the logout
LogoutClears_always(resp) == TRUE

\* logout 133-136: self.auth_token = None is reached
LogoutClears(resp) == ~Raises(resp)

\* ZabbixAPIClient.logout 126-138 (the bulk manager has none): the
\* ZabbixAPIError of _request is caught and turned into False
ClientLogout ==
    /\ ClientOnly
    /\ kind = "api"
    /\ Len(sent) < MaxRequests
    /\ \E resp \in OtherResponses :
         /\ Send("user.logout", resp)
         /\ IF LogoutClears(resp)
              THEN auth_token' = None /\ session' = None
              ELSE UNCHANGED <<auth_token, session>>
         /\ last_logout' = <<[resp |-> resp, before |-> auth_token,
                              after |-> auth_token',
                              ret |-> IF Raises(resp) THEN "False" ELSE "True"]>>
    /\ UNCHANGED <<kind, last_login>>

\* any other call: host.get, host.create, item.create, ...
ClientRequest ==
    /\ ClientOnly
    /\ Len(sent) < MaxRequests
    /\ \E method \in {"host.get", "item.create"}, resp \in OtherResponses :
         Send(method, resp)
    /\ UNCHANGED <<kind, auth_token, session, last_login, last_logout>>

InitClient ==
    /\ kind \in {"api", "bulk"}
    /\ auth_token = None /\ request_id = 0 /\ sent = <<>>
    /\ session = None /\ last_login = <<>> /\ last_logout = <<>>
    /\ MgmtParked /\ WaitParked /\ ChunkParked /\ OthersParked

NextClient == ClientLogin \/ ClientLogout \/ ClientRequest

SpecClient == InitClient /\ [][NextClient]_vars

\* C7: from an accepted login to an accepted logout every request other than
\* user.login carries the bearer token of the latest accepted login; a
\* user.login request carries none, and no request carries one before the
\* first accepted login (nor after an accepted logout).
C7_BearerToken ==
    \A k \in 1..Len(sent) :
        sent[k].bearer = (IF sent[k].method = "user.login" THEN None
                          ELSE sent[k].session)

\* C7 witness: a request sent with the token of a second login, after a
\* logout and a failed login in between
C7_Witness ==
    \E i, j, k \in 1..Len(sent) :
        /\ i < j /\ j < k
        /\ sent[i].bearer = "tokenA"
        /\ sent[j].method = "user.login"
        /\ sent[k].bearer = "tokenB" /\ sent[k].method = "host.get"

\* C8: ZabbixAPIClient.login stores a token only when it succeeds: on a
\* transport failure, a non-200 status, an error field or a non-string result
\* it raises ZabbixAPIError and leaves the stored token as it was; on success
\* the stored token is the returned result.
C8_LoginStoresOnSuccess ==
    (kind = "api" /\ last_login # <<>>) =>
        LET l == last_login[1] IN
        /\ (l.resp.kind = "ok" /\ l.resp.result \in Tokens)
               => (l.ret = "True" /\ l.after = l.resp.result)
        /\ (l.resp.kind # "ok" \/ l.resp.result = NonString)
               => (l.ret = "ZabbixAPIError" /\ l.after = l.before)

\* C8 witness: a login that failed on a non-string result while a token of an
\* earlier login was stored
C8_Witness ==
    /\ kind = "api" /\ last_login # <<>>
    /\ last_login[1].resp.result = NonString
    /\ last_login[1].before \in Tokens

\* C9 as claimed: within one client instance the k-th request carries id k,
\* so every id is greater than all ids sent before it.
C9_RequestIdsIncrease ==
    \A k \in 1..Len(sent) : sent[k].id = k

(***************************************************************************)
(* The batch loop of the bulk item scripts: add_bulk_items_1000.py 201-222 *)
(* and add_bulk_items.py 242-255.  Items are named by their position in    *)
(* the generated list; submitted holds the batches handed to item.create,  *)
(* in order.                                                               *)
(***************************************************************************)
batch_size == 100

Min(a, b) == IF a < b THEN a ELSE b

\* Python's seq[lo:hi] for 0 <= lo <= hi
Slice(seq, lo, hi) == SubSeq(seq, Min(lo, Len(seq)) + 1, Min(hi, Len(seq)))

\* mutant: the slice ends one item early
Batch_short(list, start) == Slice(list, start, start + batch_size - 1)

\* 207: batch = items_to_create[batch_start:batch_start + batch_size]
Batch(list, start) == Slice(list, start, start + batch_size)

ChunkOnly ==
    UNCHANGED <<mgmtVars, waitVars, clientVars, itemVars, genVars,
                testVars, scriptVars>>

\* 206-222: one iteration of `for batch_start in range(0, len(items), 100)`;
\* the batch goes to item.create once, whatever the answer
SubmitBatch ==
    /\ ChunkOnly
    /\ b_pc = "loop" /\ batch_start < Len(items_to_create)
    /\ submitted' = Append(submitted, Batch(items_to_create, batch_start))
    /\ batch_start' = batch_start + batch_size
    /\ UNCHANGED <<items_to_create, b_pc>>

\* the range is exhausted
BatchesDone ==
    /\ ChunkOnly
    /\ b_pc = "loop" /\ batch_start >= Len(items_to_create)
    /\ b_pc' = "done"
    /\ UNCHANGED <<items_to_create, batch_start, submitted>>

InitChunk ==
    /\ \E L \in 0..MaxItems : items_to_create = [i \in 1..L |-> i]
    /\ batch_start = 0 /\ submitted = <<>> /\ b_pc = "loop"
    /\ MgmtParked /\ WaitParked /\ ClientParked /\ OthersParked

NextChunk == SubmitBatch \/ BatchesDone

SpecChunk == InitChunk /\ [][NextChunk]_vars

RECURSIVE Concat(_)
Concat(batches) ==
    IF batches = <<>> THEN <<>> ELSE Head(batches) \o Concat(Tail(batches))

\* C10: chunked submission is lossless and ordered: the chunks submitted so
\* far concatenate to a prefix of the generated list and, when the loop ends,
\* to the whole list in its order (so every item is in exactly one chunk);
\* every chunk but the last has 100 items and the last has 1 to 100.
C10_ChunkingLossless ==
    /\ Concat(submitted) =
           SubSeq(items_to_create, 1, Min(batch_start, Len(items_to_create)))
    /\ b_pc = "done" => Concat(submitted) = items_to_create
    /\ \A k \in 1..Len(submitted) :
         /\ Len(submitted[k]) \in 1..100
         /\ k < Len(submitted) => Len(submitted[k]) = 100

\* C10 witness: a list that ends in a short third chunk
C10_Witness ==
    /\ b_pc = "done" /\ Len(submitted) = 3
    /\ Len(submitted[3]) \in 1..99

(***************************************************************************)
(* SpecItems: one invocation of a bulk item script, scripts/add_bulk_items *)
(* .py (module level) or scripts/add_bulk_items_1000.py (main): login,     *)
(* host.get, then for each host hostinterface.get, the generation of the   *)
(* item list and the batch loop, with the server's answer to every         *)
(* item.create and the counters the script keeps.  Item definitions are    *)
(* named by their position in the generated list, which is the same for    *)
(* every host; the server holds a set of them per host.                    *)
(***************************************************************************)
MaxFullChunks == 1   \* the generated list has 0..MaxFullChunks full chunks ...
MaxPhrases == 2      \* an error text holds "already exists" 0..MaxPhrases times

Scripts == {"add_bulk_items", "add_bulk_items_1000"}
ItemHosts == {1, 2}
HostLists == {<<>>, <<1>>, <<1, 2>>}
\* ... followed by a chunk of 0, 1 or 99 definitions
ListLengths ==
    {c * batch_size + e : c \in 0..MaxFullChunks, e \in {0, 1, batch_size - 1}}

Keys(batch) == {batch[k] : k \in 1..Len(batch)}

\* The server's answers to item.create(batch) for a host.  An answer is
\* [kind, phrases]: "ok", or "error" with the number of times the error
\* text says "already exists".  The server creates a batch as a whole or not
\* at all, rejects a batch holding a key the host already has with a text
\* that names duplicates, and any request can fail in another way.
ItemAnswers(host, batch) ==
    {[kind |-> "error", phrases |-> 0]}
    \cup (IF Keys(batch) \cap srv_items[host] = {}
            THEN {[kind |-> "ok", phrases |-> 0]}
            ELSE {[kind |-> "error", phrases |-> d] : d \in 1..MaxPhrases})

\* the items of the host after the answer
ItemsCreated(host, batch, answer) ==
    [srv_items EXCEPT ![host] = IF answer.kind = "ok" THEN @ \cup Keys(batch) ELSE @]

\* add_bulk_items_1000.py 214: "already exists" in error_str;
\* add_bulk_items.py never looks at the text
MentionsDuplicate(answer) ==
    script = "add_bulk_items_1000" /\ answer.phrases > 0

\* add_bulk_items_1000.py 210, 217 / add_bulk_items.py 251: what the chunk
\* adds to host_success (created)
ChunkSuccess(size, answer) ==
    IF answer.kind = "ok" THEN size
    ELSE IF MentionsDuplicate(answer) THEN size - answer.phrases
    ELSE 0

\* mutant: a chunk that fails for another reason is not counted
ChunkFailed_uncounted(size, answer) ==
    IF answer.kind = "ok" THEN 0
    ELSE IF MentionsDuplicate(answer) THEN answer.phrases
    ELSE 0

\* add_bulk_items_1000.py 216, 222 / add_bulk_items.py 255: what the chunk
\* adds to host_failed (failed)
ChunkFailed(size, answer) ==
    IF answer.kind = "ok" THEN 0
    ELSE IF MentionsDuplicate(answer) THEN answer.phrases
    ELSE size

RECURSIVE Sum(_)
Sum(numbers) == IF numbers = <<>> THEN 0 ELSE Head(numbers) + Sum(Tail(numbers))

\* history: what the calls of a host added to host_failed for errors whose
\* text names duplicates
CountedDuplicates(log) ==
    Sum([k \in 1..Len(log) |->
           IF log[k].answer.phrases > 0 THEN log[k].failed_added ELSE 0])

ItemsOnly ==
    UNCHANGED <<mgmtVars, waitVars, clientVars, genVars,
                testVars, scriptVars>>

\* client.login(): an error is not caught, the script ends with a traceback
ItemsLogin ==
    /\ ItemsOnly
    /\ b_pc = "login"
    /\ \E resp \in Responses : b_pc' = IF resp = "ok" THEN "hosts" ELSE "crashed"
    /\ UNCHANGED <<items_to_create, batch_start, submitted, itemVars>>

\* hosts = client._request('host.get', ...): not caught either
ItemsLoadHosts ==
    /\ ItemsOnly
    /\ b_pc = "hosts"
    /\ \E resp \in Responses : b_pc' = IF resp = "ok" THEN "host" ELSE "crashed"
    /\ UNCHANGED <<items_to_create, batch_start, submitted, itemVars>>

\* The head of one iteration of the host loop: hostinterface.get, the search
\* for the SNMP interface, the generation of items_to_create and the reset
\* of the host's counters.  A host without SNMP interface is skipped; an
\* error of hostinterface.get skips the host in add_bulk_items_1000.py
\* (232-234) and ends add_bulk_items.py.
ItemsBeginHost ==
    /\ ItemsOnly
    /\ b_pc = "host" /\ host_idx <= Len(item_hosts)
    /\ \E iface \in {"snmp", "none", "error"} :
         IF iface = "snmp"
           THEN /\ items_to_create' = [i \in 1..definitions |-> i]
                /\ batch_start' = 0 /\ submitted' = <<>> /\ item_calls' = <<>>
                /\ host_success' = 0 /\ host_failed' = 0
                /\ b_pc' = "loop"
                /\ UNCHANGED host_idx
           ELSE /\ IF iface = "error" /\ script = "add_bulk_items"
                     THEN b_pc' = "crashed" /\ UNCHANGED host_idx
                     ELSE b_pc' = "host" /\ host_idx' = host_idx + 1
                /\ UNCHANGED <<items_to_create, batch_start, submitted, item_calls,
                               host_success, host_failed>>
    /\ UNCHANGED <<script, definitions, item_hosts, total_success, total_failed,
                   total_duplicate, srv_items, host_counts>>

\* One iteration of the batch loop: the batch goes to item.create and the
\* answer is counted.
ItemsCreateBatch ==
    /\ ItemsOnly
    /\ b_pc = "loop" /\ batch_start < Len(items_to_create)
    /\ LET host == item_hosts[host_idx]
           batch == Batch(items_to_create, batch_start)
       IN \E answer \in ItemAnswers(host, batch) :
            /\ srv_items' = ItemsCreated(host, batch, answer)
            /\ host_success' = host_success + ChunkSuccess(Len(batch), answer)
            /\ host_failed' = host_failed + ChunkFailed(Len(batch), answer)
            /\ submitted' = Append(submitted, batch)
            /\ item_calls' = Append(item_calls,
                 [host |-> host, start |-> batch_start, size |-> Len(batch),
                  answer |-> answer,
                  existing |-> Cardinality(Keys(batch) \cap srv_items[host]),
                  success_added |-> host_success' - host_success,
                  failed_added |-> host_failed' - host_failed])
    /\ batch_start' = batch_start + batch_size
    /\ UNCHANGED <<items_to_create, b_pc, script, definitions, item_hosts,
                   host_idx, total_success, total_failed, total_duplicate,
                   host_counts>>

\* The batch loop of the host is over: add_bulk_items_1000.py 224-226 adds
\* the host's counts to the totals (add_bulk_items.py keeps no totals), and
\* the host loop moves on.
ItemsEndHost ==
    /\ ItemsOnly
    /\ b_pc = "loop" /\ batch_start >= Len(items_to_create)
    /\ IF script = "add_bulk_items_1000"
         THEN /\ total_success' = total_success + host_success
              /\ total_failed' = total_failed + host_failed
              /\ total_duplicate' = total_duplicate + host_failed
         ELSE UNCHANGED <<total_success, total_failed, total_duplicate>>
    /\ host_counts' = Append(host_counts,
         [host |-> item_hosts[host_idx], success |-> host_success,
          failed |-> host_failed,
          duplicates |-> CountedDuplicates(item_calls)])
    /\ host_idx' = host_idx + 1 /\ b_pc' = "host"
    /\ UNCHANGED <<items_to_create, batch_start, submitted, script, definitions,
                   item_hosts, host_success, host_failed, srv_items, item_calls>>

\* after the last host: the summary is printed
ItemsSummary ==
    /\ ItemsOnly
    /\ b_pc = "host" /\ host_idx > Len(item_hosts)
    /\ b_pc' = "done"
    /\ UNCHANGED <<items_to_create, batch_start, submitted, itemVars>>

\* Every host of the server holds none of the items or, after an earlier
\* complete run, all of them.
InitItems ==
    /\ script \in Scripts
    /\ definitions \in ListLengths
    /\ item_hosts \in HostLists
    /\ host_idx = 1
    /\ host_success = 0 /\ host_failed = 0
    /\ total_success = 0 /\ total_failed = 0 /\ total_duplicate = 0
    /\ srv_items \in {[h \in ItemHosts |-> {}], [h \in ItemHosts |-> 1..definitions]}
    /\ item_calls = <<>> /\ host_counts = <<>>
    /\ items_to_create = <<>> /\ batch_start = 0 /\ submitted = <<>>
    /\ b_pc = "login"
    /\ MgmtParked /\ WaitParked /\ ClientParked /\ GenParked /\ TestParked
    /\ ScriptParked

NextItems ==
    \/ ItemsLogin
    \/ ItemsLoadHosts
    \/ ItemsBeginHost
    \/ ItemsCreateBatch
    \/ ItemsEndHost
    \/ ItemsSummary

SpecItems == InitItems /\ [][NextItems]_vars

C12_ChunkSubmittedOnce ==
    /\ Len(submitted) = Len(item_calls)
    /\ \A k \in 1..Len(item_calls) :
         LET c == item_calls[k]
         IN /\ c.start = (k - 1) * batch_size
            /\ submitted[k] = Batch(items_to_create, c.start)
            /\ c.size = Len(submitted[k])
            /\ \A j \in 1..(k - 1) : Keys(submitted[j]) \cap Keys(submitted[k]) = {}
            /\ (c.answer.kind = "error" /\ c.answer.phrases = 0) =>
                 (c.failed_added = c.size /\ c.success_added = 0)
    /\ \A i, j \in 1..Len(host_counts) :
         i # j => host_counts[i].host # host_counts[j].host

\* C12 witness: the first chunk of a host failed without naming a duplicate
\* and the script went on to the next chunk and to the summary
C12_Witness ==
    /\ b_pc = "done" /\ Len(item_calls) = 2
    /\ item_calls[1].answer = [kind |-> "error", phrases |-> 0]
    /\ item_calls[2].answer.kind = "ok"

\* C13: a chunk rejected only because its items already exist on the host
\* adds nothing to the failure count.
C13_DuplicatesNotFailures ==
    \A k \in 1..Len(item_calls) :
      LET c == item_calls[k]
      IN (c.existing = c.size /\ c.answer.phrases > 0) => c.failed_added = 0

\* C16: for every host whose chunks were sent, success plus failure is the
\* number of generated definitions; the totals of add_bulk_items_1000.py are
\* the sums of the hosts' counts and the duplicate total is the sum of what
\* was counted for duplicate errors; what a chunk created stays on the
\* server.
C16_CountsAccumulate ==
    /\ \A k \in 1..Len(host_counts) :
         host_counts[k].success + host_counts[k].failed = definitions
    /\ script = "add_bulk_items_1000" =>
         /\ total_success = Sum([k \in 1..Len(host_counts) |-> host_counts[k].success])
         /\ total_failed = Sum([k \in 1..Len(host_counts) |-> host_counts[k].failed])
         /\ total_duplicate =
              Sum([k \in 1..Len(host_counts) |-> host_counts[k].duplicates])
    /\ \A k \in 1..Len(item_calls) :
         item_calls[k].answer.kind = "ok" =>
           Keys(submitted[k]) \subseteq srv_items[item_calls[k].host]

(***************************************************************************)
(* SpecGen: the generation of items_to_create for one host, in             *)
(* scripts/add_bulk_items_1000.py 157-199 and scripts/add_bulk_items.py    *)
(* 197-238, from the catalogs of the script.  An item is the record of the *)
(* fields that depend on the catalog entry: key_, snmp_oid, value_type and *)
(* trends (hostid, interfaceid, type, delay, history and status are the    *)
(* same for every item of a host).                                         *)
(***************************************************************************)
\* add_bulk_items_1000.py 13-43: (oid_name, item_key, value_type, data_type)
INTERFACE_ITEMS_1000 == <<
    <<"ifDescr", "net.if.description", "1", "6">>,
    <<"ifName", "net.if.name", "1", "6">>,
    <<"ifMtu", "net.if.mtu", "3", "0">>,
    <<"ifSpeed", "net.if.speed", "3", "0">>,
    <<"ifOperStatus", "net.if.status", "3", "0">>,
    <<"ifAdminStatus", "net.if.admin.status", "3", "0">>,
    <<"ifPhysAddress", "net.if.physaddr", "1", "6">>,
    <<"ifInOctets", "net.if.in.bytes", "3", "2">>,
    <<"ifInUcastPkts", "net.if.in.ucast", "3", "2">>,
    <<"ifInNUcastPkts", "net.if.in.nucast", "3", "2">>,
    <<"ifInDiscards", "net.if.in.discards", "3", "2">>,
    <<"ifInErrors", "net.if.in.errors", "3", "2">>,
    <<"ifOutOctets", "net.if.out.bytes", "3", "2">>,
    <<"ifOutUcastPkts", "net.if.out.ucast", "3", "2">>,
    <<"ifOutNUcastPkts", "net.if.out.nucast", "3", "2">>,
    <<"ifOutDiscards", "net.if.out.discards", "3", "2">>,
    <<"ifOutErrors", "net.if.out.errors", "3", "2">>,
    <<"ifHCInOctets", "net.if.hc.in.bytes", "3", "2">>,
    <<"ifHCInUcastPkts", "net.if.hc.in.ucast", "3", "2">>,
    <<"ifHCOutOctets", "net.if.hc.out.bytes", "3", "2">>,
    <<"ifHCOutUcastPkts", "net.if.hc.out.ucast", "3", "2">>,
    <<"ifDuplex", "net.if.duplex", "3", "0">>,
    <<"ifHighSpeed", "net.if.highspeed", "3", "0">>,
    <<"ifLastChange", "net.if.lastchange", "3", "0">>,
    <<"ifConnectorPresent", "net.if.connector", "3", "0">>,
    <<"etherStatsOctets", "net.ether.in.bytes", "3", "2">>,
    <<"etherStatsUndersizePkts", "net.ether.undersize", "3", "2">>,
    <<"etherStatsOversizePkts", "net.ether.oversize", "3", "2">>,
    <<"etherStatsCRCAlignErrors", "net.ether.crc", "3", "2">>
>>

\* add_bulk_items_1000.py 46-106: (oid_name, item_key, value_type, data_type, trends)
SYSTEM_ITEMS_1000 == <<
    <<"sysDescr", "system.description", "1", "6", "0">>,
    <<"sysUpTime", "system.uptime", "3", "0", "0">>,
    <<"sysContact", "system.contact", "1", "6", "0">>,
    <<"sysName", "system.name", "1", "6", "0">>,
    <<"sysLocation", "system.location", "1", "6", "0">>,
    <<"cpmCPUTotal5min.0", "cpu.util.5min", "3", "0", "3">>,
    <<"cpmCPUTotal1min.0", "cpu.util.1min", "3", "0", "3">>,
    <<"cpmCPUTotal5minRev.0", "cpu.util.rev.5min", "3", "0", "3">>,
    <<"cpmCPUTotal1minRev.0", "cpu.util.rev.1min", "3", "0", "3">>,
    <<"ciscoMemoryPoolUsed.1", "memory.pool.main.used", "3", "0", "0">>,
    <<"ciscoMemoryPoolFree.1", "memory.pool.main.free", "3", "0", "0">>,
    <<"ciscoMemoryPoolUsed.2", "memory.pool.io.used", "3", "0", "0">>,
    <<"ciscoMemoryPoolFree.2", "memory.pool.io.free", "3", "0", "0">>,
    <<"entSensorValue.1", "sensor.inlet.temp", "3", "0", "3">>,
    <<"entSensorValue.2", "sensor.exhaust.temp", "3", "0", "3">>,
    <<"entSensorValue.3", "sensor.cpu.temp", "3", "0", "3">>,
    <<"entSensorValue.4", "sensor.chassis.temp", "3", "0", "3">>,
    <<"entSensorValue.5", "sensor.module.temp", "3", "0", "3">>,
    <<"entSensorValue.6", "sensor.backplane.temp", "3", "0", "3">>,
    <<"entSensorValue.7", "sensor.fabric.temp", "3", "0", "3">>,
    <<"entSensorValue.8", "sensor.systembrd.temp", "3", "0", "3">>,
    <<"entSensorStatus.1", "sensor.status.inlet", "3", "0", "0">>,
    <<"entSensorStatus.2", "sensor.status.exhaust", "3", "0", "0">>,
    <<"entSensorStatus.3", "sensor.status.cpu", "3", "0", "0">>,
    <<"entSensorStatus.4", "sensor.status.chassis", "3", "0", "0">>,
    <<"entSensorStatus.5", "sensor.status.module", "3", "0", "0">>,
    <<"entSensorStatus.6", "sensor.status.backplane", "3", "0", "0">>,
    <<"entSensorStatus.7", "sensor.status.fabric", "3", "0", "0">>,
    <<"entSensorStatus.8", "sensor.status.systembrd", "3", "0", "0">>,
    <<"ciscoFanState.1", "fan.status.1", "3", "0", "0">>,
    <<"ciscoFanState.2", "fan.status.2", "3", "0", "0">>,
    <<"ciscoFanState.3", "fan.status.3", "3", "0", "0">>,
    <<"ciscoFanState.4", "fan.status.4", "3", "0", "0">>,
    <<"ciscoFanState.5", "fan.status.5", "3", "0", "0">>,
    <<"ciscoFanState.6", "fan.status.6", "3", "0", "0">>,
    <<"ciscoPowerSupplyStatus.1", "psu.status.1", "3", "0", "0">>,
    <<"ciscoPowerSupplyStatus.2", "psu.status.2", "3", "0", "0">>,
    <<"ciscoPowerSupplyStatus.3", "psu.status.3", "3", "0", "0">>,
    <<"ciscoPowerSupplyStatus.4", "psu.status.4", "3", "0", "0">>,
    <<"entPhysicalSerialNum.1", "entity.serial.chassis", "1", "6", "0">>,
    <<"entPhysicalModelName.1", "entity.model.chassis", "1", "6", "0">>,
    <<"ipInReceives", "ip.in.receives", "3", "0", "2">>,
    <<"ipInHdrErrors", "ip.in.hdrerrors", "3", "0", "2">>,
    <<"ipInAddrErrors", "ip.in.addrerrors", "3", "0", "2">>,
    <<"ipForwDatagrams", "ip.forwarded", "3", "0", "2">>,
    <<"ipInDelivers", "ip.in.delivers", "3", "0", "2">>,
    <<"ipOutRequests", "ip.out.requests", "3", "0", "2">>,
    <<"ipOutDiscards", "ip.out.discards", "3", "0", "2">>,
    <<"ipReasmReqds", "ip.reassm.reqds", "3", "0", "2">>,
    <<"ipReasmOKs", "ip.reassm.oks", "3", "0", "2">>,
    <<"ipFragOKs", "ip.frag.oks", "3", "0", "2">>,
    <<"tcpInSegs", "tcp.in.segments", "3", "0", "2">>,
    <<"tcpOutSegs", "tcp.out.segments", "3", "0", "2">>,
    <<"udpInDatagrams", "udp.in.datagrams", "3", "0", "2">>,
    <<"udpOutDatagrams", "udp.out.datagrams", "3", "0", "2">>,
    <<"icmpInMsgs", "icmp.in.msgs", "3", "0", "2">>,
    <<"icmpOutMsgs", "icmp.out.msgs", "3", "0", "2">>,
    <<"icmpInEchos", "icmp.in.echos", "3", "0", "2">>,
    <<"icmpOutEchoReplies", "icmp.out.echo.replies", "3", "0", "2">>
>>

\* add_bulk_items.py 32-81: the key and oid templates are given as the texts
\* around each '{ifindex}'
INTERFACE_ITEMS == <<
    [key |-> <<"net.if.in.bits[", "]">>,
     oid |-> <<"1.3.6.1.2.1.31.1.1.1.6.", "">>, value_type |-> 3],
    [key |-> <<"net.if.out.bits[", "]">>,
     oid |-> <<"1.3.6.1.2.1.31.1.1.1.10.", "">>, value_type |-> 3],
    [key |-> <<"net.if.in.packets[", "]">>,
     oid |-> <<"1.3.6.1.2.1.2.2.1.11.", "">>, value_type |-> 3],
    [key |-> <<"net.if.out.packets[", "]">>,
     oid |-> <<"1.3.6.1.2.1.2.2.1.17.", "">>, value_type |-> 3],
    [key |-> <<"net.if.in.ucast.hc[", "]">>,
     oid |-> <<"1.3.6.1.2.1.31.1.1.1.7.", "">>, value_type |-> 3],
    [key |-> <<"net.if.out.ucast.hc[", "]">>,
     oid |-> <<"1.3.6.1.2.1.31.1.1.1.11.", "">>, value_type |-> 3],
    [key |-> <<"net.if.in.mcast[", "]">>,
     oid |-> <<"1.3.6.1.2.1.31.1.1.1.2.", "">>, value_type |-> 3],
    [key |-> <<"net.if.out.mcast[", "]">>,
     oid |-> <<"1.3.6.1.2.1.31.1.1.1.4.", "">>, value_type |-> 3],
    [key |-> <<"net.if.in.mcast.hc[", "]">>,
     oid |-> <<"1.3.6.1.2.1.31.1.1.1.8.", "">>, value_type |-> 3],
    [key |-> <<"net.if.out.mcast.hc[", "]">>,
     oid |-> <<"1.3.6.1.2.1.31.1.1.1.12.", "">>, value_type |-> 3],
    [key |-> <<"net.if.in.bcast[", "]">>,
     oid |-> <<"1.3.6.1.2.1.31.1.1.1.3.", "">>, value_type |-> 3],
    [key |-> <<"net.if.out.bcast[", "]">>,
     oid |-> <<"1.3.6.1.2.1.31.1.1.1.5.", "">>, value_type |-> 3],
    [key |-> <<"net.if.in.bcast.hc[", "]">>,
     oid |-> <<"1.3.6.1.2.1.31.1.1.1.9.", "">>, value_type |-> 3],
    [key |-> <<"net.if.out.bcast.hc[", "]">>,
     oid |-> <<"1.3.6.1.2.1.31.1.1.1.13.", "">>, value_type |-> 3],
    [key |-> <<"net.if.in.nucast[", "]">>,
     oid |-> <<"1.3.6.1.2.1.2.2.1.12.", "">>, value_type |-> 3],
    [key |-> <<"net.if.out.nucast[", "]">>,
     oid |-> <<"1.3.6.1.2.1.2.2.1.18.", "">>, value_type |-> 3],
    [key |-> <<"net.if.in.errors[", "]">>,
     oid |-> <<"1.3.6.1.2.1.2.2.1.14.", "">>, value_type |-> 3],
    [key |-> <<"net.if.out.errors[", "]">>,
     oid |-> <<"1.3.6.1.2.1.2.2.1.20.", "">>, value_type |-> 3],
    [key |-> <<"net.if.in.discards[", "]">>,
     oid |-> <<"1.3.6.1.2.1.2.2.1.13.", "">>, value_type |-> 3],
    [key |-> <<"net.if.out.discards[", "]">>,
     oid |-> <<"1.3.6.1.2.1.2.2.1.19.", "">>, value_type |-> 3],
    [key |-> <<"net.if.in.unknownprotos[", "]">>,
     oid |-> <<"1.3.6.1.2.1.2.2.1.15.", "">>, value_type |-> 3],
    [key |-> <<"net.if.operstatus[", "]">>,
     oid |-> <<"1.3.6.1.2.1.2.2.1.8.", "">>, value_type |-> 3],
    [key |-> <<"net.if.adminstatus[", "]">>,
     oid |-> <<"1.3.6.1.2.1.2.2.1.7.", "">>, value_type |-> 3],
    [key |-> <<"net.if.speed[", "]">>,
     oid |-> <<"1.3.6.1.2.1.31.1.1.1.15.", "">>, value_type |-> 3],
    [key |-> <<"net.if.mtu[", "]">>,
     oid |-> <<"1.3.6.1.2.1.2.2.1.4.", "">>, value_type |-> 3],
    [key |-> <<"net.if.type[", "]">>,
     oid |-> <<"1.3.6.1.2.1.2.2.1.3.", "">>, value_type |-> 3],
    [key |-> <<"net.if.duplex[", "]">>,
     oid |-> <<"1.3.6.1.2.1.10.7.2.1.19.", "">>, value_type |-> 3],
    [key |-> <<"net.if.lastchange[", "]">>,
     oid |-> <<"1.3.6.1.2.1.2.2.1.9.", "">>, value_type |-> 3],
    [key |-> <<"net.if.outqlen[", "]">>,
     oid |-> <<"1.3.6.1.2.1.2.2.1.21.", "">>, value_type |-> 3]
>>

\* add_bulk_items.py 84-116: the literal part of SYSTEM_ITEMS
SYSTEM_ITEMS_listed == <<
    [key |-> "system.descr", oid |-> "1.3.6.1.2.1.1.1.0", value_type |-> 4],
    [key |-> "system.uptime", oid |-> "1.3.6.1.2.1.1.3.0", value_type |-> 3],
    [key |-> "system.contact", oid |-> "1.3.6.1.2.1.1.4.0", value_type |-> 4],
    [key |-> "system.name", oid |-> "1.3.6.1.2.1.1.5.0", value_type |-> 4],
    [key |-> "system.location", oid |-> "1.3.6.1.2.1.1.6.0", value_type |-> 4],
    [key |-> "ip.in.receives", oid |-> "1.3.6.1.2.1.4.3.0", value_type |-> 3],
    [key |-> "ip.in.hdrerrors", oid |-> "1.3.6.1.2.1.4.4.0", value_type |-> 3],
    [key |-> "ip.in.addrerrors", oid |-> "1.3.6.1.2.1.4.5.0", value_type |-> 3],
    [key |-> "ip.forw.datagrams", oid |-> "1.3.6.1.2.1.4.6.0", value_type |-> 3],
    [key |-> "ip.in.discards", oid |-> "1.3.6.1.2.1.4.8.0", value_type |-> 3],
    [key |-> "ip.in.delivers", oid |-> "1.3.6.1.2.1.4.9.0", value_type |-> 3],
    [key |-> "ip.out.requests", oid |-> "1.3.6.1.2.1.4.10.0", value_type |-> 3],
    [key |-> "tcp.active.opens", oid |-> "1.3.6.1.2.1.6.5.0", value_type |-> 3],
    [key |-> "tcp.passive.opens", oid |-> "1.3.6.1.2.1.6.6.0", value_type |-> 3],
    [key |-> "tcp.attempt.fails", oid |-> "1.3.6.1.2.1.6.7.0", value_type |-> 3],
    [key |-> "tcp.estab.resets", oid |-> "1.3.6.1.2.1.6.8.0", value_type |-> 3],
    [key |-> "tcp.curr.estab", oid |-> "1.3.6.1.2.1.6.9.0", value_type |-> 3],
    [key |-> "tcp.in.segs", oid |-> "1.3.6.1.2.1.6.10.0", value_type |-> 3],
    [key |-> "tcp.out.segs", oid |-> "1.3.6.1.2.1.6.11.0", value_type |-> 3],
    [key |-> "tcp.retrans.segs", oid |-> "1.3.6.1.2.1.6.12.0", value_type |-> 3],
    [key |-> "udp.in.datagrams", oid |-> "1.3.6.1.2.1.7.1.0", value_type |-> 3],
    [key |-> "udp.no.ports", oid |-> "1.3.6.1.2.1.7.2.0", value_type |-> 3],
    [key |-> "udp.in.errors", oid |-> "1.3.6.1.2.1.7.3.0", value_type |-> 3],
    [key |-> "udp.out.datagrams", oid |-> "1.3.6.1.2.1.7.4.0", value_type |-> 3]
>>

\* add_bulk_items.py 119-149: the entries the module appends to SYSTEM_ITEMS
CpuItems(cpu_idx) == <<
    [key |-> "cpu.util.1min[" \o Decimal(cpu_idx) \o "]",
     oid |-> "1.3.6.1.4.1.9.9.109.1.1.1.1.3." \o Decimal(cpu_idx), value_type |-> 3],
    [key |-> "cpu.util.5min[" \o Decimal(cpu_idx) \o "]",
     oid |-> "1.3.6.1.4.1.9.9.109.1.1.1.1.4." \o Decimal(cpu_idx), value_type |-> 3]
>>
MemoryItems(mem_idx) == <<
    [key |-> "memory.used[" \o Decimal(mem_idx) \o "]",
     oid |-> "1.3.6.1.4.1.9.9.48.1.1.1.5." \o Decimal(mem_idx), value_type |-> 3],
    [key |-> "memory.free[" \o Decimal(mem_idx) \o "]",
     oid |-> "1.3.6.1.4.1.9.9.48.1.1.1.6." \o Decimal(mem_idx), value_type |-> 3]
>>
TemperatureItems(sensor_idx) == <<
    [key |-> "temp.value[" \o Decimal(sensor_idx) \o "]",
     oid |-> "1.3.6.1.4.1.9.9.13.1.3.1.3." \o Decimal(sensor_idx), value_type |-> 3],
    [key |-> "temp.state[" \o Decimal(sensor_idx) \o "]",
     oid |-> "1.3.6.1.4.1.9.9.13.1.3.1.4." \o Decimal(sensor_idx), value_type |-> 3]
>>
FanItem(fan_idx) ==
    [key |-> "fan.state[" \o Decimal(fan_idx) \o "]",
     oid |-> "1.3.6.1.4.1.9.9.13.1.4.1.3." \o Decimal(fan_idx), value_type |-> 3]
PsuItem(psu_idx) ==
    [key |-> "psu.state[" \o Decimal(psu_idx) \o "]",
     oid |-> "1.3.6.1.4.1.9.9.13.1.5.1.3." \o Decimal(psu_idx), value_type |-> 3]

\* SYSTEM_ITEMS of add_bulk_items.py when the host loop starts
SYSTEM_ITEMS ==
    SYSTEM_ITEMS_listed
    \o Concat([cpu_idx \in 1..4 |-> CpuItems(cpu_idx)])
    \o Concat([mem_idx \in 1..2 |-> MemoryItems(mem_idx)])
    \o Concat([sensor_idx \in 1..8 |-> TemperatureItems(sensor_idx)])
    \o [fan_idx \in 1..6 |-> FanItem(fan_idx)]
    \o [psu_idx \in 1..4 |-> PsuItem(psu_idx)]

\* range(1, 49): the interface indexes
interfaces == 48

\* int() of the one-digit texts of the catalogs
int(text) ==
    CASE text = "0" -> 0 [] text = "1" -> 1 [] text = "2" -> 2 [] text = "3" -> 3
      [] text = "4" -> 4 [] text = "5" -> 5 [] text = "6" -> 6 [] text = "7" -> 7
      [] text = "8" -> 8 [] text = "9" -> 9

\* template.replace('{ifindex}', value), the template given as the texts
\* around each placeholder
RECURSIVE Replace(_, _)
Replace(template, value) ==
    IF Len(template) = 1 THEN template[1]
    ELSE template[1] \o value \o Replace(Tail(template), value)

\* mutant: the key does not carry the interface index
ItemKey_noindex(item_key, idx) == item_key

\* add_bulk_items_1000.py 164: key = f"{item_key}[{if_idx}]"
ItemKey(item_key, idx) == item_key \o "[" \o Decimal(idx) \o "]"

InterfaceCatalog ==
    IF g_script = "add_bulk_items_1000" THEN INTERFACE_ITEMS_1000 ELSE INTERFACE_ITEMS
SystemCatalog ==
    IF g_script = "add_bulk_items_1000" THEN SYSTEM_ITEMS_1000 ELSE SYSTEM_ITEMS

\* add_bulk_items_1000.py 161-178 / add_bulk_items.py 202-216: the item of a
\* per-interface catalog entry for an interface index
InterfaceItem(entry, idx) ==
    IF g_script = "add_bulk_items_1000"
      THEN [key_ |-> ItemKey(entry[2], idx),
            snmp_oid |-> entry[1] \o "." \o Decimal(idx),
            value_type |-> int(entry[3]),
            trends |-> IF Len(entry) > 4 THEN int(entry[5]) ELSE 365]
      ELSE [key_ |-> Replace(entry.key, Decimal(idx)),
            snmp_oid |-> Replace(entry.oid, Decimal(idx)),
            value_type |-> entry.value_type,
            trends |-> "365d"]

\* add_bulk_items_1000.py 182-198 / add_bulk_items.py 221-236: the item of a
\* host-global catalog entry
SystemItem(entry) ==
    IF g_script = "add_bulk_items_1000"
      THEN [key_ |-> entry[2],
            snmp_oid |-> entry[1],
            value_type |-> int(entry[3]),
            trends |-> IF int(entry[3]) = 4 THEN 0 ELSE int(entry[5])]
      ELSE [key_ |-> entry.key,
            snmp_oid |-> entry.oid,
            value_type |-> entry.value_type,
            trends |-> IF entry.value_type = 4 THEN "0" ELSE "365d"]

\* mutant: the range stops one index early
MoreInterfaces_short(idx) == idx < interfaces

\* for if_idx in range(1, 49)
MoreInterfaces(idx) == idx <= interfaces

GenOnly ==
    UNCHANGED <<mgmtVars, waitVars, clientVars, chunkVars, itemVars,
                testVars, scriptVars>>

\* one iteration of the interface loop: an item for every entry of the
\* per-interface catalog, in catalog order
GenInterface ==
    /\ GenOnly
    /\ g_pc = "loop" /\ MoreInterfaces(if_idx)
    /\ g_items' = g_items \o [t \in 1..Len(InterfaceCatalog) |->
                                 InterfaceItem(InterfaceCatalog[t], if_idx)]
    /\ if_idx' = if_idx + 1
    /\ UNCHANGED <<g_script, sys_idx, g_pc>>

\* one iteration of the system loop, after the interface loop
GenSystem ==
    /\ GenOnly
    /\ g_pc = "loop" /\ ~MoreInterfaces(if_idx) /\ sys_idx <= Len(SystemCatalog)
    /\ g_items' = Append(g_items, SystemItem(SystemCatalog[sys_idx]))
    /\ sys_idx' = sys_idx + 1
    /\ UNCHANGED <<g_script, if_idx, g_pc>>

\* both loops are over: the list goes to the batch loop
GenDone ==
    /\ GenOnly
    /\ g_pc = "loop" /\ ~MoreInterfaces(if_idx) /\ sys_idx > Len(SystemCatalog)
    /\ g_pc' = "done"
    /\ UNCHANGED <<g_script, if_idx, sys_idx, g_items>>

InitGen ==
    /\ g_script \in Scripts
    /\ if_idx = 1 /\ sys_idx = 1 /\ g_items = <<>> /\ g_pc = "loop"
    /\ MgmtParked /\ WaitParked /\ ClientParked /\ ChunkParked
    /\ ItemParked /\ TestParked /\ ScriptParked

NextGen == GenInterface \/ GenSystem \/ GenDone

SpecGen == InitGen /\ [][NextGen]_vars

\* C14: no two item definitions generated for a host have the same key, at
\* any point of the generation: per-interface items of distinct (entry,
\* index) pairs and host-global items all differ in key_.
C14_KeysUnique ==
    Cardinality({g_items[k].key_ : k \in 1..Len(g_items)}) = Len(g_items)

\* C14 witness: a finished list with per-interface and host-global items
C14_Witness ==
    /\ g_pc = "done" /\ if_idx > 2 /\ sys_idx > 2
    /\ Len(g_items) > Len(InterfaceCatalog) * 2

MaxWait == 11   \* max_wait of _wait_for_data_collection ranges over 0..MaxWait
MaxLag == 1     \* seconds one check of the data poll takes: 0..MaxLag

\* 237: time.sleep(min(10, max_wait - elapsed))
poll_sleep == 10
\* 254: for item in items[:10]
checked_items == 10

\* mutant: provisioning and verification change places
NextStage_swapped(stage) ==
    CASE stage = "init" -> "authenticate"
      [] stage = "authenticate" -> "verify"
      [] stage = "verify" -> "provision"
      [] stage = "provision" -> "poll"
      [] stage = "poll" -> "collect"
      [] stage = "collect" -> "report"

\* 382-406: the stage run_full_test calls after a stage has returned
NextStage(stage) ==
    CASE stage = "init" -> "authenticate"
      [] stage = "authenticate" -> "provision"
      [] stage = "provision" -> "verify"
      [] stage = "verify" -> "poll"
      [] stage = "poll" -> "collect"
      [] stage = "collect" -> "report"

\* mutant: a failed stage never ends the run, only an exception does
Aborts_raiseOnly(stage, result) == result = "raise"

\* 383-388 and 419-423: run_full_test returns False when _initialize_client
\* or _authenticate returns False and when any stage raises
Aborts(stage, result) ==
    \/ result = "raise"
    \/ stage \in {"init", "authenticate"} /\ result = "False"

\* run_full_test after a stage ended with result: return False, or call the
\* next stage
Leave(stage, result) ==
    IF Aborts(stage, result)
      THEN /\ stages' = Append(stages, <<stage, result>>)
           /\ t_pc' = "returned" /\ t_ret' = FALSE
      ELSE /\ stages' = stages \o << <<stage, result>>, <<NextStage(stage), "start">> >>
           /\ t_pc' = NextStage(stage) /\ t_ret' = t_ret

Bool(b) == IF b THEN "True" ELSE "False"
Sent(stage, methods) == t_calls' = t_calls \cup {<<stage, m>> : m \in methods}

TestOnly ==
    UNCHANGED <<mgmtVars, waitVars, clientVars, chunkVars, itemVars,
                genVars, scriptVars>>

\* 78-100 _initialize_client: get_version turns an API error into "Unknown",
\* so the stage returns True
TestInitialize ==
    /\ TestOnly
    /\ t_pc = "init"
    /\ Sent("init", {"apiinfo.version"})
    /\ Leave("init", "True")
    /\ UNCHANGED <<num_devices, t_device, t_added, t_failed, max_wait, elapsed,
                   test_results, report, t_checks>>

\* 102-112 _authenticate
TestAuthenticate ==
    /\ TestOnly
    /\ t_pc = "authenticate"
    /\ Sent("authenticate", {"user.login"})
    /\ \E resp \in Responses : Leave("authenticate", Bool(resp = "ok"))
    /\ UNCHANGED <<num_devices, t_device, t_added, t_failed, max_wait, elapsed,
                   test_results, report, t_checks>>

\* 140-172 _add_devices: one iteration of the device loop.  The host exists,
\* or it is created and its interval set, or one of host.get, host.create
\* and item.get raises an API error, which is recorded.
TestAddDevice ==
    /\ TestOnly
    /\ t_pc = "provision" /\ t_device <= num_devices
    /\ \E out \in {"exists", "created", "error_get", "error_create", "error_items"} :
         /\ Sent("provision",
                 CASE out \in {"exists", "error_get"} -> {"host.get"}
                   [] out = "error_create" -> {"host.get", "host.create"}
                   [] out = "error_items" -> {"host.get", "host.create", "item.get"}
                   [] out = "created" -> {"host.get", "host.create", "item.get",
                                          "item.update"})
         /\ IF out \in {"exists", "created"}
              THEN /\ t_added' = t_added + 1
                   /\ UNCHANGED <<t_failed, test_results>>
              ELSE /\ t_failed' = t_failed + 1
                   /\ test_results' =
                        [test_results EXCEPT !.errors =
                           Append(@, "Failed to add " \o Hostname(t_device))]
                   /\ UNCHANGED t_added
    /\ t_device' = t_device + 1
    /\ UNCHANGED <<t_pc, num_devices, max_wait, elapsed, report, t_ret, stages,
                   t_checks>>

\* 174-179 _add_devices: after the loop
TestAddDevicesDone ==
    /\ TestOnly
    /\ t_pc = "provision" /\ t_device > num_devices
    /\ test_results' = [test_results EXCEPT !.devices_added = t_added]
    /\ Leave("provision", Bool(t_failed = 0))
    /\ UNCHANGED <<num_devices, t_device, t_added, t_failed, max_wait, elapsed,
                   report, t_calls, t_checks>>

\* 181-218 _verify_items_created: host.get or item.get raises, or there is
\* no host, or the first num_devices cisco-iosxr hosts have no item, or some
TestVerifyItems ==
    /\ TestOnly
    /\ t_pc = "verify"
    /\ \E out \in {"raise_hosts", "raise_items", "no_hosts", "no_items", "items"} :
         /\ out \in {"raise_items", "items"} => num_devices > 0
         /\ Sent("verify", IF out \in {"raise_hosts", "no_hosts"}
                             THEN {"host.get"} ELSE {"host.get", "item.get"})
         /\ test_results' =
              IF out \in {"no_items", "items"}
                THEN [test_results EXCEPT !.items_created = IF out = "items" THEN 1 ELSE 0]
                ELSE test_results
         /\ Leave("verify", CASE out \in {"raise_hosts", "raise_items"} -> "raise"
                              [] out \in {"no_hosts", "no_items"} -> "False"
                              [] out = "items" -> "True")
    /\ elapsed' = 0
    /\ UNCHANGED <<num_devices, t_device, t_added, t_failed, max_wait, report,
                   t_checks>>

\* What one check of the data poll finds: an API error, or whether there is
\* a cisco-iosxr host, how many items the first one has and which of them
\* have a recorded value.
PollAnswers ==
    {[error |-> TRUE, cisco |-> FALSE, items |-> 0, valued |-> {}]} \cup
    {[error |-> FALSE, cisco |-> c, items |-> n, valued |-> v] :
        c \in BOOLEAN, n \in {0, 1, checked_items + 1},
        v \in SUBSET {1, checked_items + 1}}

\* 244-259: the check finds data
DataFound(answer) ==
    /\ ~answer.error /\ answer.cisco
    /\ answer.items > 0
    /\ answer.valued \cap (1..Min(checked_items, answer.items)) # {}

\* mutant: the loop is entered once more when the time is exactly up
PollContinues_inclusive(waited, limit) == waited <= limit

\* 236: while elapsed < max_wait
PollContinues(waited, limit) == waited < limit

\* 237: time.sleep(min(10, max_wait - elapsed))
SleepTime(waited, limit) == Min(poll_sleep, limit - waited)

\* 236-266 _wait_for_data_collection: one iteration of the while loop
TestPollCheck ==
    /\ TestOnly
    /\ t_pc = "poll" /\ PollContinues(elapsed, max_wait)
    /\ \E lag \in 0..MaxLag, answer \in PollAnswers :
         LET slept == SleepTime(elapsed, max_wait)
         IN /\ elapsed' = elapsed + slept + lag
            /\ Sent("poll", IF answer.error THEN {"host.get"}
                            ELSE IF ~answer.cisco THEN {"host.get"}
                            ELSE IF answer.items = 0 THEN {"host.get", "item.get"}
                            ELSE {"host.get", "item.get", "history.get"})
            /\ t_checks' = Append(t_checks,
                 [slept |-> slept, from |-> elapsed,
                  found |-> DataFound(answer)])
            /\ IF answer.error THEN Leave("poll", "raise")
               ELSE IF DataFound(answer) THEN Leave("poll", "True")
               ELSE UNCHANGED <<stages, t_pc, t_ret>>
    /\ UNCHANGED <<num_devices, t_device, t_added, t_failed, max_wait,
                   test_results, report>>

\* 268-273 and 399-400: the wait is over without data; run_full_test records
\* the error and goes on
TestPollTimeout ==
    /\ TestOnly
    /\ t_pc = "poll" /\ ~PollContinues(elapsed, max_wait)
    /\ test_results' = [test_results EXCEPT !.errors =
                          Append(@, "Data collection did not start")]
    /\ Leave("poll", "False")
    /\ UNCHANGED <<num_devices, t_device, t_added, t_failed, max_wait, elapsed,
                   report, t_calls, t_checks>>

\* 275-332 _collect_metrics: an API error is not caught
TestCollect ==
    /\ TestOnly
    /\ t_pc = "collect"
    /\ \E out \in {[error |-> e, total_items |-> n, items_with_data |-> d] :
                       e \in BOOLEAN, n \in {0, 1}, d \in {0, 1}} :
         IF out.error
           THEN /\ Sent("collect", {"host.get"})
                /\ Leave("collect", "raise")
                /\ UNCHANGED test_results
           ELSE /\ out.items_with_data <= out.total_items
                /\ Sent("collect", {"host.get"} \cup
                          (IF out.total_items > 0 THEN {"item.get", "history.get"}
                           ELSE {}))
                /\ test_results' =
                     [test_results EXCEPT !.items_with_data = out.items_with_data]
                /\ Leave("collect", "return")
    /\ UNCHANGED <<num_devices, t_device, t_added, t_failed, max_wait, elapsed,
                   report, t_checks>>

\* 334-377 _generate_report and 408-417: the report is written and
\* run_full_test returns True
TestReport ==
    /\ TestOnly
    /\ t_pc = "report"
    /\ test_results' = [test_results EXCEPT !.status = "completed"]
    /\ report' = <<[results |-> test_results']>>
    /\ stages' = Append(stages, <<"report", "return">>)
    /\ t_pc' = "returned" /\ t_ret' = TRUE
    /\ UNCHANGED <<num_devices, t_device, t_added, t_failed, max_wait, elapsed,
                   t_calls, t_checks>>

TestInit ==
    /\ t_pc = "init"
    /\ num_devices \in 0..MaxDevices
    /\ max_wait \in 0..MaxWait
    /\ t_device = 1 /\ t_added = 0 /\ t_failed = 0 /\ elapsed = 0
    /\ test_results = [status |-> "running", devices_added |-> 0,
                       items_created |-> 0, items_with_data |-> 0, errors |-> <<>>]
    /\ report = <<>> /\ t_ret = FALSE
    /\ stages = << <<"init", "start">> >>
    /\ t_calls = {} /\ t_checks = <<>>

InitTest ==
    /\ TestInit
    /\ MgmtParked /\ WaitParked /\ ClientParked /\ ChunkParked
    /\ ItemParked /\ GenParked /\ ScriptParked

NextTest ==
    \/ TestInitialize
    \/ TestAuthenticate
    \/ TestAddDevice
    \/ TestAddDevicesDone
    \/ TestVerifyItems
    \/ TestPollCheck
    \/ TestPollTimeout
    \/ TestCollect
    \/ TestReport

SpecTest == InitTest /\ [][NextTest]_vars

(***************************************************************************)
(* SpecAuth: an invocation of a management command or of the test runner   *)
(* (the behaviours of SpecManage and of SpecTest).                         *)
(***************************************************************************)
\* no management command runs beside the test runner
MgmtIdle ==
    /\ MgmtInit([r \in Runs |-> "none"], 0, {FALSE})
    /\ srv_hosts = {}

InitAuth ==
    \/ InitManage
    \/ /\ TestInit /\ MgmtIdle
       /\ WaitParked /\ ClientParked /\ ChunkParked /\ ItemParked /\ GenParked
       /\ ScriptParked

NextAuth == NextManage \/ NextTest

SpecAuth == InitAuth /\ [][NextAuth]_vars

Range(seq) == {seq[k] : k \in 1..Len(seq)}

StageRank(stage) ==
    CASE stage = "init" -> 1 [] stage = "authenticate" -> 2
      [] stage = "provision" -> 3 [] stage = "verify" -> 4
      [] stage = "poll" -> 5 [] stage = "collect" -> 6 [] stage = "report" -> 7

\* C17: the stages of run_full_test run in the order init, authenticate,
\* provision, verify, poll, collect, report: the j-th stage that starts is
\* the j-th of the order (so none runs twice and none is re-entered), a
\* stage starts only when the stage before it has returned, and every API
\* call belongs to a stage that has started.
C17_StagesInOrder ==
    /\ \A k \in 1..Len(stages) :
         IF k % 2 = 1
           THEN /\ stages[k][2] = "start"
                /\ StageRank(stages[k][1]) = (k + 1) \div 2
                /\ k > 1 => stages[k - 1][2] \in {"True", "False", "return"}
           ELSE /\ stages[k][2] \in {"True", "False", "return", "raise"}
                /\ stages[k][1] = stages[k - 1][1]
    /\ \A c \in t_calls : <<c[1], "start">> \in Range(stages)
    /\ t_pc \notin {"returned", "parked"} =>
         stages[Len(stages)] = <<t_pc, "start">>

\* C17 witness: a run through all seven stages
C17_Witness ==
    /\ t_pc = "returned" /\ t_ret
    /\ Len(stages) = 14 /\ stages[14] = <<"report", "return">>

\* C18: when the login fails, the test runner sends no call of a later
\* stage, starts no later stage, writes no report and returns False; a
\* management command whose login fails has sent nothing else and returns 1.
C18_AuthFailureTerminal ==
    /\ (t_pc # "parked" /\ <<"authenticate", "False">> \in Range(stages)) =>
         /\ t_pc = "returned" /\ t_ret = FALSE
         /\ report = <<>>
         /\ stages[Len(stages)] = <<"authenticate", "False">>
         /\ t_calls = {<<"init", "apiinfo.version">>, <<"authenticate", "user.login">>}
    /\ (faulted[1] /\ calls[1][Len(calls[1])] = <<"user.login", "">>) =>
         /\ pc[1] = "done" /\ rc[1] = 1
         /\ \A k \in 1..(Len(calls[1]) - 1) : calls[1][k][1] \in Preamble

\* C18 witness: the test runner has returned after a failed login
C18_Witness ==
    /\ t_pc = "returned"
    /\ stages[Len(stages)] = <<"authenticate", "False">>

\* C19: once authentication has succeeded, a run that ends without an error
\* of the collect stage itself has run the collect and report stages and
\* written the report with status "completed", whatever happened in the
\* provision, verify and poll stages.
C19_StageFailureNeverAborts ==
    (/\ t_pc = "returned"
     /\ <<"authenticate", "True">> \in Range(stages)
     /\ <<"collect", "raise">> \notin Range(stages)) =>
        /\ <<"collect", "return">> \in Range(stages)
        /\ <<"report", "return">> \in Range(stages)
        /\ report # <<>>
        /\ report[1].results.status = "completed"

\* C20: when the data poll has returned False, the error "Data collection
\* did not start" is recorded, and the run ends with the collect and report
\* stages run, that error in the written report and the result True.
C20_DataTimeoutNonFatal ==
    <<"poll", "False">> \in Range(stages) =>
        /\ "Data collection did not start" \in Range(test_results.errors)
        /\ t_pc = "returned" =>
             /\ <<"collect", "return">> \in Range(stages)
             /\ <<"report", "return">> \in Range(stages)
             /\ report # <<>>
             /\ "Data collection did not start" \in Range(report[1].results.errors)
             /\ t_ret = TRUE

(***************************************************************************)
(* SpecPoll: one call of _wait_for_data_collection, tests/run_zabbix_test  *)
(* .py 220-273, from its first line; FairPoll adds that the loop keeps      *)
(* running (the process is not suspended for ever).                        *)
(***************************************************************************)
InitPoll ==
    /\ t_pc = "poll"
    /\ num_devices \in 0..MaxDevices
    /\ max_wait \in 0..MaxWait
    /\ t_device = num_devices + 1 /\ t_added = 0 /\ t_failed = 0 /\ elapsed = 0
    /\ test_results = [status |-> "running", devices_added |-> 0,
                       items_created |-> 0, items_with_data |-> 0, errors |-> <<>>]
    /\ report = <<>> /\ t_ret = FALSE
    /\ stages = << <<"poll", "start">> >>
    /\ t_calls = {} /\ t_checks = <<>>
    /\ MgmtParked /\ WaitParked /\ ClientParked /\ ChunkParked
    /\ ItemParked /\ GenParked /\ ScriptParked

NextPoll == TestPollCheck \/ TestPollTimeout

SpecPoll == InitPoll /\ [][NextPoll]_vars

FairPoll == SpecPoll /\ WF_vars(NextPoll)

CeilDiv(a, b) == (a + b - 1) \div b

\* the result of the data poll, "running" while it has not ended
PollResult ==
    IF \E k \in 1..Len(stages) : stages[k][1] = "poll" /\ stages[k][2] # "start"
      THEN (CHOOSE e \in Range(stages) : e[1] = "poll" /\ e[2] # "start")[2]
      ELSE "running"

\* C21: the data poll always ends.  Before each check it sleeps
\* min(10, max_wait - elapsed) seconds; a check that finds a value among the
\* first 10 items of the first cisco-iosxr host is the last one and the poll
\* returns True; the poll returns False only when elapsed has reached
\* max_wait and no check found data; there are never more than
\* ceil(max_wait / 10) checks, and none at all when max_wait = 0.
C21_PollTerminates ==
    /\ [](/\ \A k \in 1..Len(t_checks) :
               /\ t_checks[k].slept = IF max_wait - t_checks[k].from < 10
                                        THEN max_wait - t_checks[k].from ELSE 10
               /\ t_checks[k].slept > 0
               /\ t_checks[k].found => k = Len(t_checks) /\ PollResult = "True"
          /\ PollResult = "True" =>
               t_checks # <<>> /\ t_checks[Len(t_checks)].found
          /\ PollResult = "False" =>
               /\ elapsed >= max_wait
               /\ \A k \in 1..Len(t_checks) : ~t_checks[k].found
          /\ Len(t_checks) <= CeilDiv(max_wait, 10)
          /\ max_wait = 0 /\ PollResult # "running" =>
               PollResult = "False" /\ t_calls = {})
    /\ <>(PollResult # "running")

\* C21 witness: a poll over 11 seconds that slept 10 seconds, then 1 second,
\* found nothing in either check and returned False
C21_Witness ==
    /\ max_wait = 11 /\ PollResult = "False"
    /\ Len(t_checks) = 2
    /\ t_checks[1].slept = 10 /\ t_checks[2].slept = 1

DelaysOf(S, id) == (CHOOSE h \in S : h.hostid = id).delays

\* C27: one update_polling_interval(hostid, interval) of `interval` sends
\* item.update for the items in list order until one fails.  When it returns
\* True every item of the host has the new interval and one item.update per
\* item was sent (none for a host without items); when it returns False, j
\* item.update calls were sent for some j >= 1, the first j - 1 items have
\* the new interval, and item j and all later items keep the old one; when
\* item.get fails no item.update is sent.  No other host changes.
C27_IntervalStopsAtFirstFailure ==
    [][(cmd[1] = "interval" /\ pc[1] = "loop" /\ device_num'[1] # device_num[1]) =>
         LET id == hosts[1][device_num[1]].hostid
             old == DelaysOf(srv_hosts, id)
             new == DelaysOf(srv_hosts', id)
             sent_updates == Len(Targets(calls'[1], "item.update"))
                               - Len(Targets(calls[1], "item.update"))
         IN  /\ Len(new) = Len(old)
             /\ \A h \in srv_hosts : h.hostid # id => h \in srv_hosts'
             /\ updated'[1] + failed'[1] = updated[1] + failed[1] + 1
             /\ updated'[1] > updated[1] =>
                    /\ sent_updates = Len(old)
                    /\ \A i \in 1..Len(old) : new[i] = interval[1]
             /\ failed'[1] > failed[1] =>
                    /\ sent_updates <= Len(old)
                    /\ \A i \in 1..Len(old) :
                           new[i] = IF i < sent_updates THEN interval[1] ELSE old[i]
       ]_vars

\* C27 witness: on a host with three items the second item.update failed:
\* the first item has the new interval, the second and third the old one
C27_Witness ==
    /\ cmd[1] = "interval" /\ failed[1] = 1 /\ updated[1] = 0 /\ device_num[1] = 2
    /\ Len(Targets(calls[1], "item.update")) = 2
    /\ DelaysOf(srv_hosts, hosts[1][1].hostid) = <<interval[1], "5m", "5m">>

\* the hosts this run created: the server numbers them from its first free
\* hostid on
CreatedByRun == {h \in srv_hosts : h.hostid >= MaxDevices + 2}

\* C28 as claimed: a device name is in the failed list of `add` only if the
\* run created no host of that name; a host that host.create created is in
\* the added list, also when the interval update after it raised.
C28_FailedMeansNotCreated ==
    cmd[1] = "add" =>
        /\ \A h \in CreatedByRun : h.host \notin Names(failed_hosts[1])
        /\ pc[1] = "done" =>
               \A h \in CreatedByRun : h.host \in Names(added_hosts[1])

\* the position of the first call of the log that the readiness poll
\* answered with True (0: none)
PollPassed(log) ==
    IF \E k \in 1..Len(log) : log[k] = <<"wait_for_server", "True">>
      THEN CHOOSE k \in 1..Len(log) : log[k] = <<"wait_for_server", "True">>
      ELSE 0

\* C29: `add` sends user.login and every host or item call only after
\* wait_for_server has returned True, and host calls only after the login;
\* when wait_for_server returns False the command returns 1 and has sent
\* nothing but apiinfo.version; when the login fails it returns 1 and has
\* sent no call after user.login.
C29_AddOrder ==
    cmd[1] = "add" =>
        /\ \A k \in 1..Len(calls[1]) :
               calls[1][k][1] \notin Preamble =>
                   /\ PollPassed(calls[1]) \in 1..(k - 1)
                   /\ calls[1][k][1] # "user.login" =>
                          \E j \in 1..(k - 1) : calls[1][j][1] = "user.login"
        /\ Len(Targets(calls[1], "wait_for_server")) <= 1
        /\ Len(Targets(calls[1], "user.login")) <= 1
        /\ Targets(calls[1], "wait_for_server") = <<"False">> =>
               /\ pc[1] = "done" /\ rc[1] = 1
               /\ calls[1] = << <<"apiinfo.version", "">>,
                                <<"wait_for_server", "False">> >>
        /\ (faulted[1] /\ calls[1] # <<>>
              /\ calls[1][Len(calls[1])][1] = "user.login") =>
               /\ pc[1] = "done" /\ rc[1] = 1
               /\ Targets(calls[1], "host.get") = <<>>
               /\ Targets(calls[1], "host.create") = <<>>

\* C29 witness: an `add` that ended because the server never answered
C29_Witness ==
    /\ cmd[1] = "add" /\ pc[1] = "done" /\ rc[1] = 1 /\ count[1] > 0
    /\ Targets(calls[1], "wait_for_server") = <<"False">>

(***************************************************************************)
(* Further properties of the client (SpecClient).                          *)
(***************************************************************************)
\* C30: ZabbixAPIClient.logout() returns True or False and never raises.
\* It returns True exactly when the user.logout request succeeded, and then
\* the stored token is None; when the request failed the stored token is
\* what it was before.  After an accepted logout every request carries no
\* bearer token until a user.login request has succeeded again.
C30_LogoutNeverRaises ==
    kind = "api" =>
        /\ last_logout # <<>> =>
               LET l == last_logout[1] IN
               /\ l.ret \in {"True", "False"}
               /\ l.ret = "True" <=> l.resp.kind = "ok"
               /\ l.ret = "True" => l.after = None
               /\ l.ret = "False" => l.after = l.before
        /\ \A j \in 1..Len(sent) : \A k \in (j + 1)..Len(sent) :
               (/\ sent[j].method = "user.logout" /\ ~sent[j].raised
                /\ \A i \in (j + 1)..(k - 1) :
                      ~(sent[i].method = "user.login" /\ ~sent[i].raised)) =>
                   sent[k].bearer = None

\* C30 witness: a logout that failed and left the token of the session in
\* place, after an accepted logout was followed by a request without bearer
\* token and by a new login
C30_Witness ==
    /\ kind = "api" /\ Len(sent) = 4
    /\ sent[1].method = "user.logout" /\ ~sent[1].raised
    /\ sent[2].method = "host.get" /\ sent[2].bearer = None
    /\ sent[3].method = "user.login"
    /\ last_logout # <<>> /\ last_logout[1].ret = "False"
    /\ last_logout[1].before \in Tokens /\ auth_token = last_logout[1].before

(***************************************************************************)
(* Further properties of the item generation (SpecGen).                    *)
(***************************************************************************)
\* Zabbix value types 1 (character) and 4 (text)
Textual(value_type) == value_type \in {1, 4}

\* C26 as claimed: every generated item of a textual value type has a trend
\* window of zero and every numeric item has the window of 365 days, among
\* the per-interface items and among the host-global items of both scripts.
C26_TrendsByValueType ==
    \A k \in 1..Len(g_items) :
        IF g_script = "add_bulk_items_1000"
          THEN g_items[k].trends = (IF Textual(g_items[k].value_type) THEN 0 ELSE 365)
          ELSE g_items[k].trends = (IF Textual(g_items[k].value_type) THEN "0" ELSE "365d")

(***************************************************************************)
(* SpecScripts: one run of one of the scripts that create hosts or link    *)
(* the template: zabbix/bulk_import_snmpv3_hosts.py (without               *)
(* --verify-only), scripts/add_remaining_hosts.py, scripts/link_templates  *)
(* .py, scripts/add_devices_quick.py and zabbix/simple_config.py.  A step  *)
(* is one phase of the script or one iteration of its host loop; every     *)
(* call is answered or fails as the server likes, except that the server   *)
(* refuses a host.create for a name it holds.  The host loops are cut to   *)
(* their first MaxDevices hosts.  An uncaught exception ends the process   *)
(* with status 1.                                                          *)
(***************************************************************************)
ProvisionScripts ==
    {"bulk_import_snmpv3_hosts", "add_remaining_hosts", "link_templates",
     "add_devices_quick", "simple_config"}

\* bulk_import_snmpv3_hosts.py 286: max_retries = 5
login_retries == 5
\* add_remaining_hosts.py 39: start_host = 101
start_host == 101

\* bulk_import_snmpv3_hosts.py 142 / simple_config.py 136:
\* f"snmpsim-host-{i:03d}"
SimHostname(i) == "snmpsim-host-" \o Format03d(i)

\* the name of the k-th host of the script's loop, k = 1, 2, ...
\* (link_templates.py: the k-th name the server may hold)
ScriptHost(name, k) ==
    CASE name = "add_remaining_hosts" -> Hostname(start_host + k - 1)
      [] name \in {"add_devices_quick", "link_templates"} -> Hostname(k)
      [] name \in {"bulk_import_snmpv3_hosts", "simple_config"} -> SimHostname(k - 1)

RECURSIVE CiscoHosts(_, _)
\* host.get with search {"host": "cisco-iosxr"}: the names held, from index i
CiscoHosts(S, i) ==
    IF i > MaxDevices THEN <<>>
    ELSE (IF Hostname(i) \in S THEN <<Hostname(i)>> ELSE <<>>) \o CiscoHosts(S, i + 1)

\* a call on the wire: ok is FALSE when it failed, held tells whether the
\* server held a host named target when the call was sent
Entry(method, target, ok) ==
    [method |-> method, target |-> target, ok |-> ok, held |-> target \in s_names]
Sends(entries) == s_calls' = s_calls \o entries
Exits(status) == s_pc' = "exited" /\ s_exit' = status
Counts(a, k, f) ==
    /\ s_added' = s_added + a /\ s_skipped' = s_skipped + k /\ s_failed' = s_failed + f

ScriptOnly ==
    UNCHANGED <<mgmtVars, waitVars, clientVars, chunkVars, itemVars, genVars, testVars>>

\* ---- zabbix/bulk_import_snmpv3_hosts.py
\* main 285-295: up to five logins, five seconds apart; login() 54-66 turns
\* every error into False
BulkLogin ==
    /\ ScriptOnly
    /\ s_script = "bulk_import_snmpv3_hosts" /\ s_pc = "login"
    /\ \E ok \in BOOLEAN :
         /\ Sends(<<Entry("user.login", "", ok)>>)
         /\ IF ok
              THEN s_pc' = "prepare" /\ UNCHANGED <<s_attempt, s_exit>>
              ELSE IF s_attempt < login_retries - 1
                     THEN s_attempt' = s_attempt + 1 /\ UNCHANGED <<s_pc, s_exit>>
                     ELSE Exits("1") /\ UNCHANGED s_attempt
    /\ UNCHANGED <<s_script, s_index, s_added, s_skipped, s_failed, s_found,
                   s_names, s_template>>

\* add_hosts 113-137: get_hostgroup (69-87: hostgroup.get, and
\* hostgroup.create when the group is missing), then template.get; an error
\* makes add_hosts return False (190-192) and main exit with 1 (311-312).  Hosts are created without template
\* when the server holds no SNMP template.
BulkPrepare ==
    /\ ScriptOnly
    /\ s_script = "bulk_import_snmpv3_hosts" /\ s_pc = "prepare"
    /\ \E out \in {"group_error", "create_error", "template_error", "found",
                   "created"} :
         /\ Sends(<<Entry("hostgroup.get", "", out # "group_error")>>
                  \o (IF out \in {"create_error", "created"}
                        THEN <<Entry("hostgroup.create", "", out = "created")>>
                        ELSE <<>>)
                  \o (IF out \in {"template_error", "found", "created"}
                        THEN <<Entry("template.get", "", out # "template_error")>>
                        ELSE <<>>))
         /\ IF out \in {"found", "created"}
              THEN s_pc' = "loop" /\ UNCHANGED s_exit
              ELSE Exits("1")
    /\ UNCHANGED <<s_script, s_attempt, s_index, s_added, s_skipped, s_failed,
                   s_found, s_names, s_template>>

\* add_hosts 140-184: host.get, then skip or host.create; any error counts
\* as failed
BulkHost ==
    /\ ScriptOnly
    /\ s_script = "bulk_import_snmpv3_hosts" /\ s_pc = "loop"
    /\ s_index <= MaxDevices
    /\ LET name == ScriptHost(s_script, s_index) IN
       \E got \in BOOLEAN, created \in BOOLEAN :
         IF ~got
           THEN /\ Sends(<<Entry("host.get", name, FALSE)>>)
                /\ Counts(0, 0, 1) /\ UNCHANGED s_names
           ELSE IF name \in s_names
             THEN /\ Sends(<<Entry("host.get", name, TRUE)>>)
                  /\ Counts(0, 1, 0) /\ UNCHANGED s_names
             ELSE /\ Sends(<<Entry("host.get", name, TRUE),
                             Entry("host.create", name, created)>>)
                  /\ IF created
                       THEN Counts(1, 0, 0) /\ s_names' = s_names \cup {name}
                       ELSE Counts(0, 0, 1) /\ UNCHANGED s_names
    /\ s_index' = s_index + 1
    /\ UNCHANGED <<s_script, s_pc, s_attempt, s_exit, s_found, s_template>>

\* add_hosts 186-188 and main 300-310: add_hosts returns True, main calls
\* verify_hosts (205-227), whose errors and result are ignored
BulkFinish ==
    /\ ScriptOnly
    /\ s_script = "bulk_import_snmpv3_hosts" /\ s_pc = "loop"
    /\ s_index > MaxDevices
    /\ \E out \in {"group_error", "create_error", "found", "created"},
          listed \in BOOLEAN :
         Sends(<<Entry("hostgroup.get", "", out # "group_error")>>
               \o (IF out \in {"create_error", "created"}
                     THEN <<Entry("hostgroup.create", "", out = "created")>>
                     ELSE <<>>)
               \o (IF out \in {"found", "created"}
                     THEN <<Entry("host.get", "", listed)>>
                     ELSE <<>>))
    /\ Exits("0")
    /\ UNCHANGED <<s_script, s_attempt, s_index, s_added, s_skipped, s_failed,
                   s_found, s_names, s_template>>

\* ---- scripts/add_remaining_hosts.py
\* main 11-14: client.login(), its error is not caught
RemainingLogin ==
    /\ ScriptOnly
    /\ s_script = "add_remaining_hosts" /\ s_pc = "login"
    /\ \E ok \in BOOLEAN :
         /\ Sends(<<Entry("user.login", "", ok)>>)
         /\ IF ok THEN s_pc' = "template" /\ UNCHANGED s_exit ELSE Exits("1")
    /\ UNCHANGED <<s_script, s_attempt, s_index, s_added, s_skipped, s_failed,
                   s_found, s_names, s_template>>

\* main 17-27: template.get by name; without the template main returns, and
\* the process ends with status 0
RemainingTemplate ==
    /\ ScriptOnly
    /\ s_script = "add_remaining_hosts" /\ s_pc = "template"
    /\ \E ok \in BOOLEAN :
         /\ Sends(<<Entry("template.get", "Cisco IOS by SNMP", ok)>>)
         /\ IF ~ok THEN Exits("1")
            ELSE IF ~s_template THEN Exits("0")
            ELSE s_pc' = "groups" /\ UNCHANGED s_exit
    /\ UNCHANGED <<s_script, s_attempt, s_index, s_added, s_skipped, s_failed,
                   s_found, s_names, s_template>>

\* main 30-36: hostgroup.get, its error is not caught
RemainingGroups ==
    /\ ScriptOnly
    /\ s_script = "add_remaining_hosts" /\ s_pc = "groups"
    /\ \E ok \in BOOLEAN :
         /\ Sends(<<Entry("hostgroup.get", "", ok)>>)
         /\ IF ok THEN s_pc' = "loop" /\ UNCHANGED s_exit ELSE Exits("1")
    /\ UNCHANGED <<s_script, s_attempt, s_index, s_added, s_skipped, s_failed,
                   s_found, s_names, s_template>>

\* main 49-88: host.create for the next name, without a lookup; any error
\* counts as failed
RemainingHost ==
    /\ ScriptOnly
    /\ s_script = "add_remaining_hosts" /\ s_pc = "loop"
    /\ s_index <= MaxDevices
    /\ LET name == ScriptHost(s_script, s_index) IN
       \E created \in BOOLEAN :
         /\ name \in s_names => ~created
         /\ Sends(<<Entry("host.create", name, created)>>)
         /\ IF created
              THEN Counts(1, 0, 0) /\ s_names' = s_names \cup {name}
              ELSE Counts(0, 0, 1) /\ UNCHANGED s_names
    /\ s_index' = s_index + 1
    /\ UNCHANGED <<s_script, s_pc, s_attempt, s_exit, s_found, s_template>>

\* main 90-93
RemainingFinish ==
    /\ ScriptOnly
    /\ s_script = "add_remaining_hosts" /\ s_pc = "loop"
    /\ s_index > MaxDevices
    /\ Exits("0")
    /\ UNCHANGED <<s_script, s_attempt, s_index, s_added, s_skipped, s_failed,
                   s_found, s_names, s_template, s_calls>>

\* ---- scripts/link_templates.py
\* 22: client.login(), its error is not caught
LinkLogin ==
    /\ ScriptOnly
    /\ s_script = "link_templates" /\ s_pc = "login"
    /\ \E ok \in BOOLEAN :
         /\ Sends(<<Entry("user.login", "", ok)>>)
         /\ IF ok THEN s_pc' = "template" /\ UNCHANGED s_exit ELSE Exits("1")
    /\ UNCHANGED <<s_script, s_attempt, s_index, s_added, s_skipped, s_failed,
                   s_found, s_names, s_template>>

\* 27-38: template.get by host name; without the template exit(1)
LinkTemplate ==
    /\ ScriptOnly
    /\ s_script = "link_templates" /\ s_pc = "template"
    /\ \E ok \in BOOLEAN :
         /\ Sends(<<Entry("template.get", "Cisco IOS by SNMP", ok)>>)
         /\ IF ok /\ s_template THEN s_pc' = "hosts" /\ UNCHANGED s_exit
            ELSE Exits("1")
    /\ UNCHANGED <<s_script, s_attempt, s_index, s_added, s_skipped, s_failed,
                   s_found, s_names, s_template>>

\* 42-47: host.get of the cisco-iosxr hosts, its error is not caught
LinkHosts ==
    /\ ScriptOnly
    /\ s_script = "link_templates" /\ s_pc = "hosts"
    /\ \E ok \in BOOLEAN :
         /\ Sends(<<Entry("host.get", "cisco-iosxr", ok)>>)
         /\ IF ok
              THEN /\ s_found' = CiscoHosts(s_names, 1)
                   /\ s_pc' = "loop" /\ UNCHANGED s_exit
              ELSE Exits("1") /\ UNCHANGED s_found
    /\ UNCHANGED <<s_script, s_attempt, s_index, s_added, s_skipped, s_failed,
                   s_names, s_template>>

\* 54-65: host.update links the template to the next host
LinkHost ==
    /\ ScriptOnly
    /\ s_script = "link_templates" /\ s_pc = "loop"
    /\ s_index <= Len(s_found)
    /\ \E ok \in BOOLEAN :
         /\ Sends(<<Entry("host.update", s_found[s_index], ok)>>)
         /\ IF ok THEN Counts(1, 0, 0) ELSE Counts(0, 0, 1)
    /\ s_index' = s_index + 1
    /\ UNCHANGED <<s_script, s_pc, s_attempt, s_exit, s_found, s_names,
                   s_template>>

\* 67-88: the summary, and item.get for the first host (its error is not
\* caught)
LinkFinish ==
    /\ ScriptOnly
    /\ s_script = "link_templates" /\ s_pc = "loop"
    /\ s_index > Len(s_found)
    /\ IF s_found = <<>>
         THEN Exits("0") /\ UNCHANGED s_calls
         ELSE \E ok \in BOOLEAN :
                /\ Sends(<<Entry("item.get", s_found[1], ok)>>)
                /\ Exits(IF ok THEN "0" ELSE "1")
    /\ UNCHANGED <<s_script, s_attempt, s_index, s_added, s_skipped, s_failed,
                   s_found, s_names, s_template>>

\* ---- scripts/add_devices_quick.py
\* 23-31: get_version() (its error is swallowed), then login; sys.exit(1) on
\* ZabbixAPIError
QuickLogin ==
    /\ ScriptOnly
    /\ s_script = "add_devices_quick" /\ s_pc = "login"
    /\ \E version \in BOOLEAN, ok \in BOOLEAN :
         /\ Sends(<<Entry("apiinfo.version", "", version),
                    Entry("user.login", "", ok)>>)
         /\ IF ok THEN s_pc' = "loop" /\ UNCHANGED s_exit ELSE Exits("1")
    /\ UNCHANGED <<s_script, s_attempt, s_index, s_added, s_skipped, s_failed,
                   s_found, s_names, s_template>>

\* 51-86: get_host, then skip or create_host; any error counts as failed
QuickHost ==
    /\ ScriptOnly
    /\ s_script = "add_devices_quick" /\ s_pc = "loop"
    /\ s_index <= MaxDevices
    /\ LET name == ScriptHost(s_script, s_index) IN
       \E got \in BOOLEAN, created \in BOOLEAN :
         IF ~got
           THEN /\ Sends(<<Entry("host.get", name, FALSE)>>)
                /\ Counts(0, 0, 1) /\ UNCHANGED s_names
           ELSE IF name \in s_names
             THEN /\ Sends(<<Entry("host.get", name, TRUE)>>)
                  /\ Counts(0, 1, 0) /\ UNCHANGED s_names
             ELSE /\ Sends(<<Entry("host.get", name, TRUE),
                             Entry("host.create", name, created)>>)
                  /\ IF created
                       THEN Counts(1, 0, 0) /\ s_names' = s_names \cup {name}
                       ELSE Counts(0, 0, 1) /\ UNCHANGED s_names
    /\ s_index' = s_index + 1
    /\ UNCHANGED <<s_script, s_pc, s_attempt, s_exit, s_found, s_template>>

\* 88-97: the summary and client.logout(), which never raises
QuickFinish ==
    /\ ScriptOnly
    /\ s_script = "add_devices_quick" /\ s_pc = "loop"
    /\ s_index > MaxDevices
    /\ \E ok \in BOOLEAN : Sends(<<Entry("user.logout", "", ok)>>)
    /\ Exits("0")
    /\ UNCHANGED <<s_script, s_attempt, s_index, s_added, s_skipped, s_failed,
                   s_found, s_names, s_template>>

\* ---- zabbix/simple_config.py (api_call 16-49 turns every error into None)
\* main 60-71: user.login; sys.exit(1) without a result
SimpleLogin ==
    /\ ScriptOnly
    /\ s_script = "simple_config" /\ s_pc = "login"
    /\ \E ok \in BOOLEAN :
         /\ Sends(<<Entry("user.login", "", ok)>>)
         /\ IF ok THEN s_pc' = "prepare" /\ UNCHANGED s_exit ELSE Exits("1")
    /\ UNCHANGED <<s_script, s_attempt, s_index, s_added, s_skipped, s_failed,
                   s_found, s_names, s_template>>

\* main 78-126: hostgroup.get; without a group hostgroup.create, and
\* sys.exit(1) when that fails; then template.get, whose result is optional
SimplePrepare ==
    /\ ScriptOnly
    /\ s_script = "simple_config" /\ s_pc = "prepare"
    /\ \E out \in {"found", "created", "create_error"}, group \in BOOLEAN,
          template \in BOOLEAN :
         /\ out = "found" => group
         /\ Sends(<<Entry("hostgroup.get", "", group)>>
                  \o (IF out # "found"
                        THEN <<Entry("hostgroup.create", "", out = "created")>>
                        ELSE <<>>)
                  \o (IF out # "create_error"
                        THEN <<Entry("template.get", "", template)>>
                        ELSE <<>>))
         /\ IF out = "create_error" THEN Exits("1")
            ELSE s_pc' = "loop" /\ UNCHANGED s_exit
    /\ UNCHANGED <<s_script, s_attempt, s_index, s_added, s_skipped, s_failed,
                   s_found, s_names, s_template>>

\* main 134-180: host.create for the next name, without a lookup
SimpleHost ==
    /\ ScriptOnly
    /\ s_script = "simple_config" /\ s_pc = "loop"
    /\ s_index <= MaxDevices
    /\ LET name == ScriptHost(s_script, s_index) IN
       \E created \in BOOLEAN :
         /\ name \in s_names => ~created
         /\ Sends(<<Entry("host.create", name, created)>>)
         /\ IF created
              THEN Counts(1, 0, 0) /\ s_names' = s_names \cup {name}
              ELSE Counts(0, 0, 1) /\ UNCHANGED s_names
    /\ s_index' = s_index + 1
    /\ UNCHANGED <<s_script, s_pc, s_attempt, s_exit, s_found, s_template>>

\* main 182-197: the summary; the process ends with status 0
SimpleFinish ==
    /\ ScriptOnly
    /\ s_script = "simple_config" /\ s_pc = "loop"
    /\ s_index > MaxDevices
    /\ Exits("0")
    /\ UNCHANGED <<s_script, s_attempt, s_index, s_added, s_skipped, s_failed,
                   s_found, s_names, s_template, s_calls>>

InitScripts ==
    /\ s_script \in ProvisionScripts
    /\ s_pc = "login" /\ s_attempt = 0 /\ s_index = 1
    /\ s_added = 0 /\ s_skipped = 0 /\ s_failed = 0 /\ s_exit = "running"
    /\ s_found = <<>> /\ s_calls = <<>>
    /\ s_names \in SUBSET {ScriptHost(s_script, k) : k \in 1..MaxDevices}
    /\ s_template \in BOOLEAN
    /\ MgmtParked /\ WaitParked /\ ClientParked /\ ChunkParked
    /\ ItemParked /\ GenParked /\ TestParked

NextScripts ==
    \/ BulkLogin
    \/ BulkPrepare
    \/ BulkHost
    \/ BulkFinish
    \/ RemainingLogin
    \/ RemainingTemplate
    \/ RemainingGroups
    \/ RemainingHost
    \/ RemainingFinish
    \/ LinkLogin
    \/ LinkTemplate
    \/ LinkHosts
    \/ LinkHost
    \/ LinkFinish
    \/ QuickLogin
    \/ QuickHost
    \/ QuickFinish
    \/ SimpleLogin
    \/ SimplePrepare
    \/ SimpleHost
    \/ SimpleFinish

SpecScripts == InitScripts /\ [][NextScripts]_vars

\* C22 as claimed: a call that failed is not sent again in the same run; in
\* particular user.login is sent at most once per run.
C22_NoRetry ==
    /\ \A j \in 1..Len(s_calls) : \A k \in (j + 1)..Len(s_calls) :
         ~s_calls[j].ok =>
            ~(/\ s_calls[k].method = s_calls[j].method
              /\ s_calls[k].target = s_calls[j].target)
    /\ Cardinality({k \in 1..Len(s_calls) : s_calls[k].method = "user.login"}) <= 1

\* C23 as claimed: when the server does not hold the template 'Cisco IOS by
\* SNMP', add_remaining_hosts.py and link_templates.py end without any
\* host.create or host.update and with a non-zero exit status.
C23_MissingTemplateExits ==
    (/\ s_script \in {"add_remaining_hosts", "link_templates"}
     /\ ~s_template
     /\ \E k \in 1..Len(s_calls) :
           s_calls[k].method = "template.get" /\ s_calls[k].ok) =>
        /\ s_pc = "exited" /\ s_exit # "0"
        /\ \A k \in 1..Len(s_calls) :
              s_calls[k].method \notin {"host.create", "host.update"}

\* C25 as claimed: in every script that creates hosts, a host.create for a
\* name follows a host.get for that name in the same run, and is never sent
\* for a name the server holds; so a run against a server that holds every
\* name counts no failure, unless a call fails for another reason than the
\* name being held.
C25_CreateAfterCheck ==
    /\ \A k \in 1..Len(s_calls) :
         s_calls[k].method = "host.create" =>
            /\ ~s_calls[k].held
            /\ \E j \in 1..(k - 1) :
                  /\ s_calls[j].method = "host.get"
                  /\ s_calls[j].target = s_calls[k].target
    /\ (/\ s_script # "parked" /\ s_script # "link_templates"
        /\ \A k \in 1..Len(s_calls) :
              \/ s_calls[k].ok
              \/ s_calls[k].method = "host.create" /\ s_calls[k].held) =>
          s_failed = 0

====
